---- MODULE Spec2Model ----
(***************************************************************************)
(* y-mongodb-provider: the update log of a Yjs document kept in MongoDB,   *)
(* the per-docName transaction queue of MongodbPersistence (_transact) and *)
(* the facade operations built on them.                                    *)
(*                                                                         *)
(* One action is one completed await of the source: the storage call the   *)
(* operation was waiting for is applied by the server and the operation    *)
(* runs on to its next await (or to its end).                              *)
(***************************************************************************)
EXTENDS Integers, Sequences, FiniteSets, TLC

\* ------------------------------------------------------------- bounds
\* number of _transact calls made in one behaviour
MaxOps == 3
\* number of storage calls that reject in one behaviour
MaxFaults == 1
\* constructor option flushSize (default 400), chosen small
flushSize == 1
\* number of _transact calls made in one behaviour of SpecDeep
MaxDeep == 5
\* number of _transact calls made in one behaviour of SpecMeta
MaxMeta == 3
\* number of _transact calls made in one behaviour of SpecChunk
MaxChunk == 3
\* number of getYDoc calls made in one behaviour of SpecLog
MaxReads == 2
\* number of clocks in the logs SpecLog reads
MaxClocks == 2
\* number of _transact calls made in one behaviour of SpecLive
MaxLive == 3
\* number of _transact calls made in one behaviour of SpecIso
MaxIso == 2
\* number of _transact calls made in one behaviour of SpecNames
MaxNames == 3
\* calls of the metadata operations on one docName
MaxKey == 3
\* calls made to an instance that is destroyed
MaxShut == 2
\* calls of storeUpdate and getYDoc on one document
MaxYDoc == 4
\* calls made to an instance after its construction
MaxBuilt == 1
\* calls that write, merge and clear one document
MaxStores == 3
\* calls made to an instance whose database holds two documents
MaxGlobal == 2
\* calls of storeUpdate with payloads of every length
MaxArith == 2
\* calls that read a log whose part sequence may be broken
MaxCorrupt == 2
\* calls made to two instances on one database
MaxTwo == 3
\* calls of the log and the metadata operations on a stored document
MaxIndep == 2
\* number of _transact calls made in one behaviour of SpecVector
MaxVector == 3

\* ------------------------------------------------------------- program constants
MAX_DOCUMENT_SIZE == 15000000
\* lib0/binary BITS32 is 0xFFFFFFFF; TLC's integers are 32-bit signed, so the
\* model takes the largest value TLC holds. Every clock of the model is far
\* below either value.
BITS32 == 2147483647

DocNames == {"doc1", "doc2"}

\* ------------------------------------------------------------- Yjs (external library)
\* A Yjs update carries a set of structs. The structs of the model are the
\* first structs of one client, numbered by their clock + 1.
Structs == {1, 2}

\* encoded size of one struct; struct 2 is a large insertion. The structs 3
\* to 6 belong to other clients and are stored in the runs that look at the
\* sizes alone: alone in an update they give it the length MAX_DOCUMENT_SIZE,
\* one more, twice and one more, three times MAX_DOCUMENT_SIZE.
StructSize(s) ==
    CASE s = 2 -> MAX_DOCUMENT_SIZE
      [] s = 3 -> MAX_DOCUMENT_SIZE - 2
      [] s = 4 -> MAX_DOCUMENT_SIZE - 1
      [] s = 5 -> 2 * MAX_DOCUMENT_SIZE - 1
      [] s = 6 -> 3 * MAX_DOCUMENT_SIZE - 2
      [] OTHER -> 10

RECURSIVE SumSize(_)
SumSize(S) == IF S = {} THEN 0 ELSE LET s == CHOOSE x \in S : TRUE IN StructSize(s) + SumSize(S \ {s})

\* update.length of the encoding of a struct set (the empty update is 2 bytes)
EncLen(u) == 2 + SumSize(u)

\* A Uint8Array is a sequence of segments [u, from, to]: the bytes from..to-1
\* of the encoding of struct set u.
Segment(u, from, to) == [u |-> u, from |-> from, to |-> to]

\* the bytes of a whole update
Encode(u) == << Segment(u, 0, EncLen(u)) >>

\* update.subarray(start, end) of a whole update
subarray(u, start, end) == << Segment(u, start, end) >>

\* Buffer.concat of two byte sequences; adjoining segments of the same
\* encoding are fused, so equal sequences are equal bytes
concat(a, b) ==
    IF a = <<>> THEN b
    ELSE IF b = <<>> THEN a
    ELSE LET l == a[Len(a)]
             h == b[1]
         IN IF l.u = h.u /\ l.to = h.from
              THEN SubSeq(a, 1, Len(a) - 1) \o << Segment(l.u, l.from, h.to) >> \o SubSeq(b, 2, Len(b))
              ELSE a \o b

\* Y.applyUpdate can read the bytes only if they are one whole encoding
Decodable(bytes) == Len(bytes) = 1 /\ bytes[1].from = 0 /\ bytes[1].to = EncLen(bytes[1].u)

\* Y.encodeStateVector: the number of structs integrated without a gap
\* (structs behind a gap stay pending and are not counted)
encodeStateVector(ydoc) == Cardinality({k \in Structs : \A j \in 1..k : j \in ydoc})

\* ------------------------------------------------------------- storage
VARIABLES
    multipleCollections, \* constructor option
    upd,                 \* the update records: [docName, clock, part, value]; part = 0: no part field
    svrec,               \* the state-vector record of each docName, or NoRecord
    meta,                \* the metadata records: [docName, metaKey, value]
    collections,         \* multipleCollections: the docNames whose collection exists
    tr,                  \* this.tr: docName -> tail of the chain (index into ops), 0: no entry
    ops,                 \* the calls of _transact, in the order they were made
    inflight,            \* chunk puts issued by storeUpdate and not yet answered
    faults,              \* storage calls that rejected so far
    closed,              \* client.close() has been called on the MongoClient
    persistence          \* new MongodbPersistence(location, opts): opts, the point reached, db created

vars == << multipleCollections, upd, svrec, meta, collections, tr, ops, inflight, faults, closed, persistence >>

NoRecord == [clock |-> -1, sv |-> -1, present |-> FALSE]

\* value written by writeStateVector: varUint clock, then the state vector
SVRecord(clock, sv) == [clock |-> clock, sv |-> sv, present |-> TRUE]

UpdateRecord(docName, clock, part, value) ==
    [docName |-> docName, clock |-> clock, part |-> part, value |-> value]

\* the scan sorted by part first, then clock
BeforePartFirst(r, o) == r.part < o.part \/ (r.part = o.part /\ r.clock <= o.clock)

\* sort order of readAsCursor: clock ascending, then part ascending
\* (a record without part sorts before every part)
Before(r, o) == r.clock < o.clock \/ (r.clock = o.clock /\ r.part <= o.part)

RECURSIVE SortDocs(_)
SortDocs(S) ==
    IF S = {} THEN <<>>
    ELSE LET m == CHOOSE r \in S : \A o \in S : Before(r, o)
         IN << m >> \o SortDocs(S \ {m})

\* db.readAsCursor(createDocumentUpdateKey(docName)) on the records U
readAsCursor(U, docName) == SortDocs({r \in U : r.docName = docName})

Max(S) == CHOOSE x \in S : \A y \in S : y <= x

\* the same read without {reverse: true}: the lowest clock, or -1
getFirstUpdateClock(U, docName) ==
    LET cs == {r.clock : r \in {x \in U : x.docName = docName /\ x.clock >= 0 /\ x.clock < BITS32}}
    IN IF cs = {} THEN -1 ELSE CHOOSE x \in cs : \A y \in cs : x <= y

\* getCurrentUpdateClock: the highest clock in [0, BITS32), or -1
getCurrentUpdateClock(U, docName) ==
    LET cs == {r.clock : r \in {x \in U : x.docName = docName /\ x.clock >= 0 /\ x.clock < BITS32}}
    IN IF cs = {} THEN -1 ELSE Max(cs)

\* the range delete with a query that leaves out docName
clearUpdatesRangeAll(U, docName, from, to) ==
    {r \in U : ~(r.clock >= from /\ r.clock < to)}

\* clearUpdatesRange: db.del({docName, clock: {$gte: from, $lt: to}})
clearUpdatesRange(U, docName, from, to) ==
    {r \in U : ~(r.docName = docName /\ r.clock >= from /\ r.clock < to)}

\* db.put of an update key: updateOne(query, {$set: {value}}, {upsert: true}).
\* A query without part matches every record of that docName and clock, with
\* or without a part field; updateOne changes one matching record, and the
\* upsert inserts only when none matches. The result is the set of possible
\* record sets.
putUpdate(U, docName, clock, part, value) ==
    LET hit == {r \in U : r.docName = docName /\ r.clock = clock /\ (part = 0 \/ r.part = part)}
    IN IF hit = {}
         THEN { U \cup {UpdateRecord(docName, clock, part, value)} }
         ELSE { (U \ {r}) \cup {UpdateRecord(docName, clock, r.part, value)} : r \in hit }

\* the values a caller hands to setMeta: "" stands for the values JavaScript
\* takes as false (0, '', false, null, undefined)
MetaValues == {"a", "b", ""}

MetaKeys == {"k1", "k2"}

\* !value of JavaScript is false
Truthy(value) == value # ""

MetaRecord(docName, metaKey, value) == [docName |-> docName, metaKey |-> metaKey, value |-> value]

\* db.put(createDocumentMetaKey(docName, metaKey), {value}): the query names
\* docName and metaKey, so at most one record matches
putMeta(M, docName, metaKey, value) ==
    {r \in M : ~(r.docName = docName /\ r.metaKey = metaKey)} \cup {MetaRecord(docName, metaKey, value)}

\* db.del(createDocumentMetaKey(docName, metaKey))
delMetaRecord(M, docName, metaKey) == {r \in M : ~(r.docName = docName /\ r.metaKey = metaKey)}

\* db.get(createDocumentMetaKey(docName, metaKey)) followed by getMeta's
\* `if (!res?.value) return undefined; return res.value`
getMetaValue(M, docName, metaKey) ==
    LET hit == {r \in M : r.docName = docName /\ r.metaKey = metaKey}
    IN IF hit = {} THEN [undefined |-> TRUE, value |-> ""]
       ELSE LET r == CHOOSE x \in hit : TRUE
            IN IF ~Truthy(r.value) THEN [undefined |-> TRUE, value |-> ""]
               ELSE [undefined |-> FALSE, value |-> r.value]

\* the collections after a write for docName: with multipleCollections the
\* server creates the collection named docName on the first write to it
Created(C, docName) == IF multipleCollections THEN C \cup {docName} ELSE C

\* getAllSVDocs on one collection: the state-vector records, as docNames
getAllSVDocs(S) == {d \in DOMAIN S : S[d].present}

\* ------------------------------------------------------------- reading the log
\* the inner loop of _convertMongoUpdates (j from i + 1): the parts that
\* follow the record with part 1. Returns the bytes put together, the index
\* of the first record not consumed, and whether the loop threw.
RECURSIVE collectParts(_, _, _, _, _)
collectParts(docs, clock, j, currentPartId, parts) ==
    IF j > Len(docs) THEN [err |-> FALSE, parts |-> parts, j |-> j]
    ELSE IF docs[j].clock = clock
      THEN IF docs[j].part = 0 \/ currentPartId # docs[j].part - 1
             THEN [err |-> TRUE, parts |-> parts, j |-> j]
             ELSE collectParts(docs, clock, j + 1, docs[j].part, concat(parts, docs[j].value))
      ELSE [err |-> FALSE, parts |-> parts, j |-> j]

\* the outer loop of _convertMongoUpdates, from record i on
RECURSIVE convertFrom(_, _, _)
convertFrom(docs, i, updates) ==
    IF i > Len(docs) THEN [err |-> FALSE, updates |-> updates]
    ELSE IF docs[i].part = 0
      THEN convertFrom(docs, i + 1, Append(updates, docs[i].value))
    ELSE IF docs[i].part = 1
      THEN LET r == collectParts(docs, docs[i].clock, i + 1, 1, docs[i].value)
           IN IF r.err THEN [err |-> TRUE, updates |-> updates]
              ELSE convertFrom(docs, r.j, Append(updates, r.parts))
    \* a record with part > 1 that no part 1 precedes matches neither branch
    ELSE convertFrom(docs, i + 1, updates)

_convertMongoUpdates(docs) == convertFrom(docs, 1, <<>>)

\* getMongoUpdates: the reassembled updates of docName, or err
getMongoUpdates(U, docName) == _convertMongoUpdates(readAsCursor(U, docName))

\* mergeUpdates (and the loop of getYDoc): Y.applyUpdate of every update on
\* a new Y.Doc. update is the struct set of Y.encodeStateAsUpdate(ydoc), sv
\* is Y.encodeStateVector(ydoc); err when Y.applyUpdate cannot read an update.
mergeUpdates(updates) ==
    IF \E k \in 1..Len(updates) : ~Decodable(updates[k])
      THEN [err |-> TRUE, update |-> {}, sv |-> 0]
      ELSE LET ydoc == UNION {updates[k][1].u : k \in 1..Len(updates)}
           IN [err |-> FALSE, update |-> ydoc, sv |-> encodeStateVector(ydoc)]

\* what getYDoc / flushDocument / getStateVector have after reading the log:
\* err (the read or the merge threw), the merged struct set, the number of updates
readLog(U, docName) ==
    LET c == getMongoUpdates(U, docName)
        m == mergeUpdates(c.updates)
    IN [err |-> c.err \/ m.err, update |-> m.update, n |-> Len(c.updates)]

\* Math.floor in the place of Math.ceil
totalChunksFloor(len) == len \div MAX_DOCUMENT_SIZE

\* the chunks storeUpdate writes for an update of more than MAX_DOCUMENT_SIZE
\* bytes: part i + 1 holds subarray(i * MAX, min(i * MAX + MAX, length))
totalChunks(len) == (len + MAX_DOCUMENT_SIZE - 1) \div MAX_DOCUMENT_SIZE

Min(a, b) == IF a <= b THEN a ELSE b

chunkOf(u, i) ==
    subarray(u, i * MAX_DOCUMENT_SIZE, Min(i * MAX_DOCUMENT_SIZE + MAX_DOCUMENT_SIZE, EncLen(u)))

\* ------------------------------------------------------------- the queue and the operations
Facade == {"storeUpdate", "getYDoc", "getStateVector", "flushDocument", "clearDocument"}

\* the keys of this.tr: the docNames and the key of the operations on the
\* whole database
QueueKeys == DocNames \cup {"global"}

\* the storage call an operation is waiting for
\*   wait      await currTr
\*   su_clock  storeUpdate: getCurrentUpdateClock
\*   su_sv     storeUpdate: writeStateVector(db, docName, sv, 0)
\*   su_put    storeUpdate: db.put of the whole update
\*   su_chunks storeUpdate: Promise.all(putPromises)
\*   fl_sv     flushDocument: writeStateVector(db, docName, stateVector, clock)
\*   fl_clear  flushDocument: clearUpdatesRange(db, docName, 0, clock)
\*   read      getMongoUpdates
\*   gsv_read  getStateVector: readStateVector
\*   gsv_clock getStateVector: getCurrentUpdateClock
\*   cd_sv     clearDocument: db.del(createDocumentStateVectorKey(docName))
\*   cd_clear  clearDocument: clearUpdatesRange(db, docName, 0, BITS32)
\*   cd_drop   clearDocument: db.dropCollection(docName)
\*   sm_put    setMeta: db.put(createDocumentMetaKey(docName, metaKey), {value})
\*   gm_get    getMeta: db.get(createDocumentMetaKey(docName, metaKey))
\*   dm_del    delMeta: db.del(createDocumentMetaKey(docName, metaKey))
\*   names     getAllDocNames: getAllSVDocs or db.getCollectionNames
\*   svs       getAllDocStateVectors: getAllSVDocs
\*   fdb_drop  flushDB: this.db.dropDatabase()
\*   fdb_close flushDB: this.client.close()
\*   close     destroy: this.client.close()
\*   closed    a storage call made on the closed client
\*   done      the promise _transact returned is resolved

\* a call of destroy has returned
Destroyed == \E j \in DOMAIN ops : ops[j].f = "destroy" /\ ops[j].pc = "done" /\ ops[j].res = "ok"

\* a call _transact(docName, f): currTr is the tail it found (0: Promise.resolve())
NewOp(docName, f, update, currTr) ==
    [docName |-> docName, f |-> f, currTr |-> currTr, pc |-> "wait",
     update |-> update,      \* the update storeUpdate writes (the argument, or the merged update of a flush)
     clock |-> -1,           \* const clock of storeUpdate
     rclock |-> -1,          \* clock read by readStateVector
     rsv |-> -1,             \* sv read by readStateVector
     res |-> "pending",      \* "ok": f returned; "null": f threw and _transact returned null
     ret |-> -1,             \* number returned: the clock (storeUpdate) or the state vector (getStateVector)
     ydoc |-> {},            \* Y.Doc returned by getYDoc
     nrec |-> -1,            \* history: the update records docName had when the promise resolved
     metaKey |-> "",         \* argument of setMeta, getMeta, delMeta
     value |-> "",           \* argument of setMeta
     got |-> [undefined |-> TRUE, value |-> ""],  \* value returned by getMeta
     names |-> {},           \* docNames returned by getAllDocNames
     svs |-> {},             \* the {name, sv, clock} returned by getAllDocStateVectors
     after |-> Destroyed,    \* history: the call was made after a destroy had returned
     inst |-> 1]             \* the MongodbPersistence instance the call was made on

OpIds == 1..Len(ops)

\* the keys of the this.tr of a second instance of MongodbPersistence, made
\* with the same location and options; both are kept in tr
OtherKey(docName) == IF docName = "doc1" THEN "doc1@2" ELSE "doc2@2"

\* the entry of this.tr a call is queued under: this.tr of its own instance
QueueKey(o) == IF o.inst = 1 THEN o.docName ELSE OtherKey(o.docName)

Running(i) == ops[i].pc \notin {"wait", "done"}

\* the updates a caller stores
Updates == {{1}, {2}}

\* a JavaScript value passed as an option: its typeof, and its number or
\* string; str is "NaN" for the number NaN
JS(type, num, str) == [type |-> type, num |-> num, str |-> str]

undefined == JS("undefined", 0, "")

\* typeof null is 'object'
null == JS("object", 0, "")

NaN == JS("number", 0, "NaN")

Num(n) == JS("number", n, "")

Str(s) == JS("string", 0, s)

Bool(b) == JS("boolean", IF b THEN 1 ELSE 0, "")

\* a default of the destructuring { option = default } = opts replaces
\* undefined only
Default(v, def) == IF v = undefined THEN def ELSE v

\* !v
Falsy(v) == v \in {undefined, null, NaN, Num(0), Str(""), Bool(FALSE)}

\* the three checks of the constructor: one of them throws
Throws(opts) ==
    LET collectionName == Default(opts.collectionName, Str("yjs-writings"))
        multiple == Default(opts.multipleCollections, Bool(FALSE))
        size == Default(opts.flushSize, Num(400))
    IN \/ collectionName.type # "string" \/ Falsy(collectionName)
       \/ multiple.type # "boolean"
       \/ size.type # "number" \/ (size # NaN /\ size.num <= 0)

\* the instance the operations are called on: constructed, with the options
\* of the state
Constructed ==
    [opts |-> [collectionName |-> undefined, multipleCollections |-> Bool(multipleCollections),
               flushSize |-> Num(flushSize)],
     pc |-> "done", db |-> TRUE]

\* new MongodbPersistence(location, opts): the checks, then new MongoAdapter
Construct ==
    /\ persistence.pc = "new"
    /\ IF Throws(persistence.opts)
         THEN /\ persistence' = [persistence EXCEPT !.pc = "thrown"]
              /\ UNCHANGED multipleCollections
         ELSE /\ persistence' = [persistence EXCEPT !.pc = "done", !.db = TRUE]
              /\ multipleCollections' = (Default(persistence.opts.multipleCollections, Bool(FALSE)) = Bool(TRUE))
    /\ UNCHANGED << closed, meta, collections, upd, svrec, tr, ops, inflight, faults >>

Init ==
    /\ multipleCollections \in BOOLEAN
    /\ upd = {}
    /\ svrec = [d \in DocNames |-> NoRecord]
    /\ meta = {}
    /\ collections = {}
    /\ tr = [d \in QueueKeys |-> 0]
    /\ ops = <<>>
    /\ inflight = {}
    /\ faults = 0
    /\ closed = FALSE
    /\ persistence = Constructed

\* _transact(docName, f): the new promise awaits the tail found in this.tr
\* and becomes the tail
Transact(docName, f, update) ==
    /\ ops' = Append(ops, NewOp(docName, f, update, tr[docName]))
    /\ tr' = [tr EXCEPT ![docName] = Len(ops) + 1]
    /\ UNCHANGED << persistence, closed, multipleCollections, meta, collections, upd, svrec, inflight, faults >>

\* _transact(docName, f) called on the second instance: the new promise
\* awaits the tail found in the this.tr of that instance
TransactOther(docName, f, update) ==
    /\ ops' = Append(ops, [NewOp(docName, f, update, tr[OtherKey(docName)]) EXCEPT !.inst = 2])
    /\ tr' = [tr EXCEPT ![OtherKey(docName)] = Len(ops) + 1]
    /\ UNCHANGED << persistence, closed, multipleCollections, meta, collections, upd, svrec, inflight, faults >>

\* _transact(docName, f) of a metadata operation
TransactMeta(docName, f, metaKey, value) ==
    /\ ops' = Append(ops, [NewOp(docName, f, {}, tr[docName]) EXCEPT !.metaKey = metaKey, !.value = value])
    /\ tr' = [tr EXCEPT ![docName] = Len(ops) + 1]
    /\ UNCHANGED << persistence, closed, multipleCollections, meta, collections, upd, svrec, inflight, faults >>

\* the first await of each f(db); every call but client.close() is made
\* through the client
FirstPc(f) ==
    CASE f = "destroy" -> "close"
      [] closed -> "closed"
      [] f = "storeUpdate" -> "su_clock"
      [] f = "getYDoc" -> "read"
      [] f = "getDiff" -> "read"
      [] f = "flushDocument" -> "read"
      [] f = "getStateVector" -> "gsv_read"
      [] f = "clearDocument" -> IF multipleCollections THEN "cd_drop" ELSE "cd_sv"
      [] f = "setMeta" -> "sm_put"
      [] f = "getMeta" -> "gm_get"
      [] f = "delMeta" -> "dm_del"
      [] f = "getAllDocNames" -> "names"
      [] f = "getAllDocStateVectors" -> "svs"
      [] f = "flushDB" -> "fdb_drop"

\* f(db) started without the await of currTr
StartNoAwait(i) ==
    /\ ops[i].pc = "wait"
    /\ ops' = [ops EXCEPT ![i].pc = FirstPc(ops[i].f)]
    /\ UNCHANGED << persistence, closed, multipleCollections, meta, collections, upd, svrec, tr, inflight, faults >>

\* f(db) started behind one queue for all docNames
StartGlobal(i) ==
    /\ ops[i].pc = "wait"
    /\ \A j \in 1..(i - 1) : ops[j].pc = "done"
    /\ ops' = [ops EXCEPT ![i].pc = FirstPc(ops[i].f)]
    /\ UNCHANGED << persistence, closed, multipleCollections, meta, collections, upd, svrec, tr, inflight, faults >>

\* f(db) started with queues for the docNames only: a call under 'global'
\* awaits nothing
StartDocOnly(i) ==
    /\ ops[i].pc = "wait"
    /\ IF ops[i].currTr = 0 \/ ops[i].docName = "global" THEN TRUE ELSE ops[ops[i].currTr].pc = "done"
    /\ ops' = [ops EXCEPT ![i].pc = FirstPc(ops[i].f)]
    /\ UNCHANGED << persistence, closed, multipleCollections, meta, collections, upd, svrec, tr, inflight, faults >>

\* await currTr is over: f(db) starts and issues its first storage call
Start(i) ==
    /\ ops[i].pc = "wait"
    /\ IF ops[i].currTr = 0 THEN TRUE ELSE ops[ops[i].currTr].pc = "done"
    /\ ops' = [ops EXCEPT ![i].pc = FirstPc(ops[i].f)]
    /\ UNCHANGED << persistence, closed, multipleCollections, meta, collections, upd, svrec, tr, inflight, faults >>

\* the same end without the catch of _transact: when f throws the promise
\* rejects, so no call that awaits it starts
ResolveUncaught(i, res, ret, ydoc, U) ==
    IF res = "null"
      THEN ops' = [ops EXCEPT ![i].pc = "thrown"] /\ UNCHANGED tr
      ELSE /\ ops' = [ops EXCEPT ![i].pc = "done", ![i].res = res, ![i].ret = ret, ![i].ydoc = ydoc,
                                 ![i].nrec = Cardinality({r \in U : r.docName = ops[i].docName})]
           /\ tr' = IF tr[QueueKey(ops[i])] = i THEN [tr EXCEPT ![QueueKey(ops[i])] = 0] ELSE tr

\* the same end with a delete of this.tr[docName] that does not look at the
\* entry
ResolveDeleteAlways(i, res, ret, ydoc, U) ==
    /\ ops' = [ops EXCEPT ![i].pc = "done", ![i].res = res, ![i].ret = ret, ![i].ydoc = ydoc,
                          ![i].nrec = Cardinality({r \in U : r.docName = ops[i].docName})]
    /\ tr' = [tr EXCEPT ![QueueKey(ops[i])] = 0]

\* the end of the async function of _transact: f returned (res "ok") or threw
\* (res "null"); the entry of this.tr is deleted if it still is this promise
Resolve(i, res, ret, ydoc, U) ==
    /\ ops' = [ops EXCEPT ![i].pc = "done", ![i].res = res, ![i].ret = ret, ![i].ydoc = ydoc,
                          ![i].nrec = Cardinality({r \in U : r.docName = ops[i].docName})]
    /\ tr' = IF tr[QueueKey(ops[i])] = i THEN [tr EXCEPT ![QueueKey(ops[i])] = 0] ELSE tr

\* the same end for getMeta and getAllDocNames, which return a value of their own
ResolveValue(i, got, names) ==
    /\ ops' = [ops EXCEPT ![i].pc = "done", ![i].res = "ok", ![i].got = got, ![i].names = names,
                          ![i].nrec = Cardinality({r \in upd : r.docName = ops[i].docName})]
    /\ tr' = IF tr[QueueKey(ops[i])] = i THEN [tr EXCEPT ![QueueKey(ops[i])] = 0] ELSE tr

\* the puts storeUpdate issues for update u at the given clock: none in
\* flight when the update fits one record (su_put), else one per chunk
ChunkPuts(i, docName, clock, u) ==
    IF EncLen(u) <= MAX_DOCUMENT_SIZE THEN {}
    ELSE { [op |-> i, docName |-> docName, clock |-> clock, part |-> k + 1, value |-> chunkOf(u, k)] :
             k \in 0..(totalChunks(EncLen(u)) - 1) }

PutPc(u) == IF EncLen(u) <= MAX_DOCUMENT_SIZE THEN "su_put" ELSE "su_chunks"

\* storeUpdate returned clock + 1: the facade's storeUpdate is over, the
\* flushDocument of utils goes on to writeStateVector
AfterStore(i, U) ==
    IF ops[i].f = "storeUpdate"
      THEN Resolve(i, "ok", ops[i].clock + 1, {}, U)
      ELSE ops' = [ops EXCEPT ![i].pc = "fl_sv"] /\ UNCHANGED tr

\* storeUpdate: const clock = await getCurrentUpdateClock(db, docName)
StoreUpdateClock(i) ==
    /\ ops[i].pc = "su_clock"
    /\ ~closed
    /\ LET d == ops[i].docName
           c == getCurrentUpdateClock(upd, d)
       IN IF c = -1
            THEN /\ ops' = [ops EXCEPT ![i].clock = c, ![i].pc = "su_sv"]
                 /\ UNCHANGED inflight
            ELSE /\ ops' = [ops EXCEPT ![i].clock = c, ![i].pc = PutPc(ops[i].update)]
                 /\ inflight' = inflight \cup ChunkPuts(i, d, c + 1, ops[i].update)
    /\ UNCHANGED << persistence, closed, multipleCollections, meta, collections, upd, svrec, tr, faults >>

\* storeUpdate: await writeStateVector(db, docName, sv, 0)
StoreUpdateWriteSV(i) ==
    /\ ops[i].pc = "su_sv"
    /\ ~closed
    /\ LET d == ops[i].docName
       IN /\ svrec' = [svrec EXCEPT ![d] = SVRecord(0, encodeStateVector(ops[i].update))]
          /\ ops' = [ops EXCEPT ![i].pc = PutPc(ops[i].update)]
          /\ inflight' = inflight \cup ChunkPuts(i, d, ops[i].clock + 1, ops[i].update)
    /\ collections' = Created(collections, ops[i].docName)
    /\ UNCHANGED << persistence, closed, multipleCollections, meta, upd, tr, faults >>

\* storeUpdate: await db.put(createDocumentUpdateKey(docName, clock + 1), {value: update})
StoreUpdatePut(i) ==
    /\ ops[i].pc = "su_put"
    /\ ~closed
    /\ upd' \in putUpdate(upd, ops[i].docName, ops[i].clock + 1, 0, Encode(ops[i].update))
    /\ AfterStore(i, upd')
    /\ collections' = Created(collections, ops[i].docName)
    /\ UNCHANGED << persistence, closed, multipleCollections, meta, svrec, inflight, faults >>

\* one of the chunk puts is answered. Promise.all resolves with the last one.
\* A put whose storeUpdate has already thrown is applied all the same.
StoreUpdateChunk(p) ==
    /\ p \in inflight
    /\ ~closed
    /\ upd' \in putUpdate(upd, p.docName, p.clock, p.part, p.value)
    /\ inflight' = inflight \ {p}
    /\ IF ops[p.op].pc = "su_chunks" /\ ~\E q \in inflight \ {p} : q.op = p.op
         THEN AfterStore(p.op, upd')
         ELSE UNCHANGED << ops, tr >>
    /\ collections' = Created(collections, p.docName)
    /\ UNCHANGED << persistence, closed, multipleCollections, meta, svrec, faults >>

\* flushDocument with a writeStateVector that keeps the clock of the record
FlushWriteSVKeep(i) ==
    /\ ops[i].pc = "fl_sv"
    /\ ~closed
    /\ svrec' = [svrec EXCEPT ![ops[i].docName] =
                  SVRecord(IF svrec[ops[i].docName].present THEN svrec[ops[i].docName].clock ELSE 0,
                           encodeStateVector(ops[i].update))]
    /\ ops' = [ops EXCEPT ![i].pc = "fl_clear"]
    /\ collections' = Created(collections, ops[i].docName)
    /\ UNCHANGED << persistence, closed, multipleCollections, meta, upd, tr, inflight, faults >>

\* flushDocument: await writeStateVector(db, docName, stateVector, clock)
FlushWriteSV(i) ==
    /\ ops[i].pc = "fl_sv"
    /\ ~closed
    /\ svrec' = [svrec EXCEPT ![ops[i].docName] = SVRecord(ops[i].clock + 1, encodeStateVector(ops[i].update))]
    /\ ops' = [ops EXCEPT ![i].pc = "fl_clear"]
    /\ collections' = Created(collections, ops[i].docName)
    /\ UNCHANGED << persistence, closed, multipleCollections, meta, upd, tr, inflight, faults >>

\* flushDocument with a delete whose query names the docName alone
FlushClearDoc(i) ==
    /\ ops[i].pc = "fl_clear"
    /\ ~closed
    /\ upd' = {r \in upd : r.docName # ops[i].docName}
    /\ svrec' = [svrec EXCEPT ![ops[i].docName] = NoRecord]
    /\ meta' = {r \in meta : r.docName # ops[i].docName}
    /\ Resolve(i, "ok",
               IF ops[i].f = "getStateVector" THEN encodeStateVector(ops[i].update) ELSE -1,
               IF ops[i].f \in {"getYDoc", "getDiff"} THEN ops[i].update ELSE {}, upd')
    /\ UNCHANGED << persistence, closed, multipleCollections, collections, inflight, faults >>

\* flushDocument: await clearUpdatesRange(db, docName, 0, clock); then the
\* facade operation that flushed returns
FlushClear(i) ==
    /\ ops[i].pc = "fl_clear"
    /\ ~closed
    /\ upd' = clearUpdatesRange(upd, ops[i].docName, 0, ops[i].clock + 1)
    /\ Resolve(i, "ok",
               IF ops[i].f = "getStateVector" THEN encodeStateVector(ops[i].update) ELSE -1,
               IF ops[i].f \in {"getYDoc", "getDiff"} THEN ops[i].update ELSE {}, upd')
    /\ UNCHANGED << persistence, closed, multipleCollections, meta, collections, svrec, inflight, faults >>

\* getYDoc, flushDocument, getStateVector: await getMongoUpdates(db, docName),
\* then the merge; getYDoc flushes only when updates.length > flushSize
ReadUpdates(i) ==
    /\ ops[i].pc = "read"
    /\ ~closed
    /\ LET r == readLog(upd, ops[i].docName)
       IN IF r.err THEN Resolve(i, "null", -1, {}, upd)
          ELSE IF ops[i].f \in {"getYDoc", "getDiff"} /\ ~(r.n > flushSize)
            THEN Resolve(i, "ok", -1, r.update, upd)
            ELSE ops' = [ops EXCEPT ![i].update = r.update, ![i].pc = "su_clock"] /\ UNCHANGED tr
    /\ UNCHANGED << persistence, closed, multipleCollections, meta, collections, upd, svrec, inflight, faults >>

\* getStateVector: const {clock, sv} = await readStateVector(db, docName)
ReadSV(i) ==
    /\ ops[i].pc = "gsv_read"
    /\ ~closed
    /\ LET s == svrec[ops[i].docName]
       IN IF s.present
            THEN ops' = [ops EXCEPT ![i].rclock = s.clock, ![i].rsv = s.sv, ![i].pc = "gsv_clock"]
            ELSE ops' = [ops EXCEPT ![i].pc = "read"]
    /\ UNCHANGED << persistence, closed, multipleCollections, meta, collections, upd, svrec, tr, inflight, faults >>

\* getStateVector: curClock = await getCurrentUpdateClock(db, docName)
CheckClock(i) ==
    /\ ops[i].pc = "gsv_clock"
    /\ ~closed
    /\ IF ops[i].rclock = getCurrentUpdateClock(upd, ops[i].docName)
         THEN Resolve(i, "ok", ops[i].rsv, {}, upd)
         ELSE ops' = [ops EXCEPT ![i].pc = "read"] /\ UNCHANGED tr
    /\ UNCHANGED << persistence, closed, multipleCollections, meta, collections, upd, svrec, inflight, faults >>

\* clearDocument without the db.del of the state-vector record
ClearKeepSV(i) ==
    /\ ops[i].pc = "cd_sv"
    /\ ~closed
    /\ ops' = [ops EXCEPT ![i].pc = "cd_clear"]
    /\ UNCHANGED << persistence, closed, multipleCollections, meta, collections, upd, svrec, tr, inflight, faults >>

\* clearDocument with a db.del whose query names no docName
ClearDelAllSV(i) ==
    /\ ops[i].pc = "cd_sv"
    /\ ~closed
    /\ svrec' = [d \in DocNames |-> NoRecord]
    /\ ops' = [ops EXCEPT ![i].pc = "cd_clear"]
    /\ UNCHANGED << persistence, closed, multipleCollections, meta, collections, upd, tr, inflight, faults >>

\* clearDocument: await db.del(createDocumentStateVectorKey(docName))
ClearDelSV(i) ==
    /\ ops[i].pc = "cd_sv"
    /\ ~closed
    /\ svrec' = [svrec EXCEPT ![ops[i].docName] = NoRecord]
    /\ ops' = [ops EXCEPT ![i].pc = "cd_clear"]
    /\ UNCHANGED << persistence, closed, multipleCollections, meta, collections, upd, tr, inflight, faults >>

\* clearDocument: await clearUpdatesRange(db, docName, 0, binary.BITS32)
ClearRange(i) ==
    /\ ops[i].pc = "cd_clear"
    /\ ~closed
    /\ upd' = clearUpdatesRange(upd, ops[i].docName, 0, BITS32)
    /\ Resolve(i, "ok", -1, {}, upd')
    /\ UNCHANGED << persistence, closed, multipleCollections, meta, collections, svrec, inflight, faults >>

\* clearDocument with multipleCollections: await db.dropCollection(docName)
DropCollection(i) ==
    /\ ops[i].pc = "cd_drop"
    /\ ~closed
    /\ upd' = {r \in upd : r.docName # ops[i].docName}
    /\ svrec' = [svrec EXCEPT ![ops[i].docName] = NoRecord]
    /\ Resolve(i, "ok", -1, {}, upd')
    /\ meta' = {r \in meta : r.docName # ops[i].docName}
    /\ collections' = collections \ {ops[i].docName}
    /\ UNCHANGED << persistence, closed, multipleCollections, inflight, faults >>

\* setMeta: await db.put(createDocumentMetaKey(docName, metaKey), {value});
\* put throws 'Document and version must be provided' when !values.value
SetMetaPut(i) ==
    /\ ops[i].pc = "sm_put"
    /\ ~closed
    /\ IF Truthy(ops[i].value)
         THEN /\ meta' = putMeta(meta, ops[i].docName, ops[i].metaKey, ops[i].value)
              /\ collections' = Created(collections, ops[i].docName)
              /\ Resolve(i, "ok", -1, {}, upd)
         ELSE /\ UNCHANGED << meta, collections >>
              /\ Resolve(i, "null", -1, {}, upd)
    /\ UNCHANGED << persistence, closed, multipleCollections, upd, svrec, inflight, faults >>

\* getMeta: const res = await db.get(createDocumentMetaKey(docName, metaKey))
GetMeta(i) ==
    /\ ops[i].pc = "gm_get"
    /\ ~closed
    /\ ResolveValue(i, getMetaValue(meta, ops[i].docName, ops[i].metaKey), {})
    /\ UNCHANGED << persistence, closed, multipleCollections, meta, collections, upd, svrec, inflight, faults >>

\* delMeta that returns without the db.del
DelMetaKeep(i) ==
    /\ ops[i].pc = "dm_del"
    /\ ~closed
    /\ Resolve(i, "ok", -1, {}, upd)
    /\ UNCHANGED << persistence, closed, multipleCollections, meta, collections, upd, svrec, inflight, faults >>

\* delMeta: db.del(createDocumentMetaKey(docName, metaKey))
DelMeta(i) ==
    /\ ops[i].pc = "dm_del"
    /\ ~closed
    /\ meta' = delMetaRecord(meta, ops[i].docName, ops[i].metaKey)
    /\ Resolve(i, "ok", -1, {}, upd)
    /\ UNCHANGED << persistence, closed, multipleCollections, collections, upd, svrec, inflight, faults >>

\* getAllDocNames: db.getCollectionNames() with multipleCollections, else the
\* docNames of getAllSVDocs(db)
GetAllDocNames(i) ==
    /\ ops[i].pc = "names"
    /\ ~closed
    /\ ResolveValue(i, ops[i].got, IF multipleCollections THEN collections ELSE getAllSVDocs(svrec))
    /\ UNCHANGED << persistence, closed, multipleCollections, meta, collections, upd, svrec, inflight, faults >>

\* the records in storage
Stored == [upd |-> upd, svrec |-> svrec, meta |-> meta, collections |-> collections]

\* what the storage call op i awaits leaves in storage when the server applies it
Applied(i) ==
    LET o == ops[i]
        d == o.docName
        put == [Stored EXCEPT !.collections = Created(collections, d)]
    IN CASE o.pc = "su_sv" -> { [put EXCEPT !.svrec = [svrec EXCEPT ![d] = SVRecord(0, encodeStateVector(o.update))]] }
         [] o.pc = "su_put" -> { [put EXCEPT !.upd = U] : U \in putUpdate(upd, d, o.clock + 1, 0, Encode(o.update)) }
         [] o.pc = "fl_sv" -> { [put EXCEPT !.svrec = [svrec EXCEPT ![d] = SVRecord(o.clock + 1, encodeStateVector(o.update))]] }
         [] o.pc = "fl_clear" -> { [Stored EXCEPT !.upd = clearUpdatesRange(upd, d, 0, o.clock + 1)] }
         [] o.pc = "cd_sv" -> { [Stored EXCEPT !.svrec = [svrec EXCEPT ![d] = NoRecord]] }
         [] o.pc = "cd_clear" -> { [Stored EXCEPT !.upd = clearUpdatesRange(upd, d, 0, BITS32)] }
         [] o.pc = "cd_drop" -> { [upd |-> {r \in upd : r.docName # d}, svrec |-> [svrec EXCEPT ![d] = NoRecord],
                                   meta |-> {r \in meta : r.docName # d}, collections |-> collections \ {d}] }
         [] o.pc = "sm_put" -> { [put EXCEPT !.meta = putMeta(meta, d, o.metaKey, o.value)] }
         [] o.pc = "dm_del" -> { [Stored EXCEPT !.meta = delMetaRecord(meta, d, o.metaKey)] }
         [] o.pc = "fdb_drop" -> { [upd |-> {}, svrec |-> [n \in DocNames |-> NoRecord], meta |-> {}, collections |-> {}] }
         [] OTHER -> { Stored }

\* The storage call op i awaits rejects: f throws, _transact catches the error
\* and returns null. The server may have applied the call before the failure
\* reached the client (for db.put: updateOne is done and the get that follows
\* it rejects), or not. (A put that throws before it calls the server is no
\* storage call: SetMetaPut.)
Reject(i) ==
    /\ faults < MaxFaults
    /\ ~closed
    /\ Running(i) /\ ops[i].pc \notin {"su_chunks", "close", "fdb_close"}
    /\ ~(ops[i].pc = "sm_put" /\ ~Truthy(ops[i].value))
    /\ \E w \in Applied(i) \cup {Stored} :
          upd' = w.upd /\ svrec' = w.svrec /\ meta' = w.meta /\ collections' = w.collections
    /\ Resolve(i, "null", -1, {}, upd')
    /\ faults' = faults + 1
    /\ UNCHANGED << persistence, closed, multipleCollections, inflight >>

\* One chunk put rejects: Promise.all rejects at once and storeUpdate throws,
\* while the puts of the other chunks stay outstanding.
RejectChunk(p) ==
    /\ faults < MaxFaults
    /\ ~closed
    /\ p \in inflight /\ ops[p.op].pc = "su_chunks"
    /\ \/ upd' \in putUpdate(upd, p.docName, p.clock, p.part, p.value) /\ collections' = Created(collections, p.docName)
       \/ UNCHANGED << upd, collections >>
    /\ inflight' = inflight \ {p}
    /\ Resolve(p.op, "null", -1, {}, upd')
    /\ faults' = faults + 1
    /\ UNCHANGED << persistence, closed, multipleCollections, meta, svrec >>

\* the end of getAllDocStateVectors, which returns a list of its own
ResolveVectors(i, svs) ==
    /\ ops' = [ops EXCEPT ![i].pc = "done", ![i].res = "ok", ![i].svs = svs,
                          ![i].nrec = Cardinality({r \in upd : r.docName = ops[i].docName})]
    /\ tr' = IF tr[QueueKey(ops[i])] = i THEN [tr EXCEPT ![QueueKey(ops[i])] = 0] ELSE tr

\* getAllDocStateVectors: const docs = await getAllSVDocs(db), each decoded by
\* decodeMongodbStateVector. getAllSVDocs reads with the query {version:
\* 'v1_sv'}, and with multipleCollections _getCollectionName throws
\* 'docName must be provided' for a query without docName.
GetAllDocStateVectors(i) ==
    /\ ops[i].pc = "svs"
    /\ ~closed
    /\ IF multipleCollections
         THEN Resolve(i, "null", -1, {}, upd)
         ELSE ResolveVectors(i, { [name |-> d, sv |-> svrec[d].sv, clock |-> svrec[d].clock] : d \in getAllSVDocs(svrec) })
    /\ UNCHANGED << persistence, closed, multipleCollections, meta, collections, upd, svrec, inflight, faults >>

\* flushDB: await this.db.dropDatabase()
DropDatabase(i) ==
    /\ ops[i].pc = "fdb_drop"
    /\ ~closed
    /\ upd' = {}
    /\ svrec' = [d \in DocNames |-> NoRecord]
    /\ meta' = {}
    /\ collections' = {}
    /\ ops' = [ops EXCEPT ![i].pc = "fdb_close"]
    /\ UNCHANGED << persistence, closed, multipleCollections, tr, inflight, faults >>

\* a close() that leaves the client connected
CloseNothing(i) ==
    /\ ops[i].pc \in {"close", "fdb_close"}
    /\ Resolve(i, "ok", -1, {}, upd)
    /\ UNCHANGED << persistence, closed, multipleCollections, meta, collections, upd, svrec, inflight, faults >>

\* destroy: db.close(), and the end of flushDB: await this.client.close()
Close(i) ==
    /\ ops[i].pc \in {"close", "fdb_close"}
    /\ closed' = TRUE
    /\ Resolve(i, "ok", -1, {}, upd)
    /\ UNCHANGED << persistence, multipleCollections, meta, collections, upd, svrec, inflight, faults >>

\* a storage call made on the closed client rejects without reaching the
\* server (MongoNotConnectedError): f throws and _transact returns null
RejectClosed(i) ==
    /\ ops[i].pc = "closed"
    /\ Resolve(i, "null", -1, {}, upd)
    /\ UNCHANGED << persistence, closed, multipleCollections, meta, collections, upd, svrec, inflight, faults >>

\* the storage call op i was awaiting when the client was closed rejects;
\* the server may have applied it
Interrupted(i) ==
    /\ closed
    /\ Running(i) /\ ops[i].pc \notin {"su_chunks", "close", "fdb_close", "closed"}
    /\ \E w \in Applied(i) \cup {Stored} :
          upd' = w.upd /\ svrec' = w.svrec /\ meta' = w.meta /\ collections' = w.collections
    /\ Resolve(i, "null", -1, {}, upd')
    /\ UNCHANGED << persistence, closed, multipleCollections, inflight, faults >>

\* the same for a chunk put that was outstanding when the client was closed
InterruptedChunk(p) ==
    /\ closed
    /\ p \in inflight
    /\ \/ upd' \in putUpdate(upd, p.docName, p.clock, p.part, p.value) /\ collections' = Created(collections, p.docName)
       \/ UNCHANGED << upd, collections >>
    /\ inflight' = inflight \ {p}
    /\ IF ops[p.op].pc = "su_chunks"
         THEN Resolve(p.op, "null", -1, {}, upd')
         ELSE UNCHANGED << ops, tr >>
    /\ UNCHANGED << persistence, closed, multipleCollections, meta, svrec, faults >>

\* the calls a program makes: any facade operation on any docName
Calls ==
    /\ Len(ops) < MaxOps
    /\ \/ \E d \in DocNames, u \in Updates : Transact(d, "storeUpdate", u)
       \/ \E d \in DocNames, f \in Facade \ {"storeUpdate"} : Transact(d, f, {})

\* the steps of _transact and of storeUpdate in which every promise settles
\* after the storage calls behind it
SettledSteps ==
    \/ \E i \in OpIds : Start(i)
    \/ \E i \in OpIds : StoreUpdateClock(i)
    \/ \E i \in OpIds : StoreUpdateWriteSV(i)
    \/ \E i \in OpIds : StoreUpdatePut(i)
    \/ \E p \in inflight : StoreUpdateChunk(p)
    \/ \E i \in OpIds : Reject(i)

\* the steps of _transact and of storeUpdate
StoreSteps ==
    \/ SettledSteps
    \/ \E p \in inflight : RejectChunk(p)

\* the steps of flushDocument, getYDoc and getStateVector
ReadSteps ==
    \/ \E i \in OpIds : FlushWriteSV(i)
    \/ \E i \in OpIds : FlushClear(i)
    \/ \E i \in OpIds : ReadUpdates(i)
    \/ \E i \in OpIds : ReadSV(i)
    \/ \E i \in OpIds : CheckClock(i)

\* the steps of clearDocument on one collection
ClearSteps ==
    \/ \E i \in OpIds : ClearDelSV(i)
    \/ \E i \in OpIds : ClearRange(i)

Next ==
    \/ Calls
    \/ StoreSteps
    \/ ReadSteps
    \/ ClearSteps
    \/ \E i \in OpIds : DropCollection(i)

Spec == Init /\ [][Next]_vars

\* The behaviours of Spec in which no chunk put rejects while the puts of the
\* other chunks are outstanding: no storage call outlives its operation.
NextSettled ==
    \/ Calls
    \/ SettledSteps
    \/ ReadSteps
    \/ ClearSteps
    \/ \E i \in OpIds : DropCollection(i)

SpecSettled == Init /\ [][NextSettled]_vars

\* ------------------------------------------------------------- the queue alone
\* One collection; the only call is storeUpdate of the update of two chunks,
\* whose puts can reject one by one.
InitShared == Init /\ multipleCollections = FALSE

CallsStore ==
    /\ Len(ops) < MaxOps
    /\ \E d \in DocNames : Transact(d, "storeUpdate", {2})

NextQueue ==
    \/ CallsStore
    \/ \E i \in OpIds : Start(i)
    \/ \E i \in OpIds : StoreUpdateClock(i)
    \/ \E i \in OpIds : StoreUpdateWriteSV(i)
    \/ \E p \in inflight : StoreUpdateChunk(p)
    \/ \E i \in OpIds : Reject(i)
    \/ \E p \in inflight : RejectChunk(p)

SpecQueue == InitShared /\ [][NextQueue]_vars

\* ------------------------------------------------------------- one document, written and cleared
\* One collection and one docName, MaxDeep calls of storeUpdate (of the
\* update of two chunks), clearDocument and getStateVector.
CallsDeep ==
    /\ Len(ops) < MaxDeep
    /\ \/ Transact("doc1", "storeUpdate", {2})
       \/ \E f \in {"clearDocument", "getStateVector"} : Transact("doc1", f, {})

NextDeep == CallsDeep \/ StoreSteps \/ ReadSteps \/ ClearSteps

SpecDeep == InitShared /\ [][NextDeep]_vars

\* the behaviours of SpecDeep in which no storage call outlives its operation
NextDeepSettled == CallsDeep \/ SettledSteps \/ ReadSteps \/ ClearSteps

SpecDeepSettled == InitShared /\ [][NextDeepSettled]_vars

\* ------------------------------------------------------------- documents with metadata
\* Either mode and both docNames; the calls are storeUpdate of the small
\* update, clearDocument, the metadata operations and getAllDocNames.
CallsMeta ==
    /\ Len(ops) < MaxMeta
    /\ \/ \E d \in DocNames : Transact(d, "storeUpdate", {1})
       \/ \E d \in DocNames : Transact(d, "clearDocument", {})
       \/ \E d \in DocNames, k \in MetaKeys, v \in MetaValues : TransactMeta(d, "setMeta", k, v)
       \/ \E d \in DocNames, k \in MetaKeys, f \in {"getMeta", "delMeta"} : TransactMeta(d, f, k, "")
       \/ Transact("global", "getAllDocNames", {})

\* the steps of the metadata operations and of getAllDocNames
MetaSteps ==
    \/ \E i \in OpIds : SetMetaPut(i)
    \/ \E i \in OpIds : GetMeta(i)
    \/ \E i \in OpIds : DelMeta(i)
    \/ \E i \in OpIds : GetAllDocNames(i)

NextMeta ==
    \/ CallsMeta
    \/ \E i \in OpIds : Start(i)
    \/ \E i \in OpIds : StoreUpdateClock(i)
    \/ \E i \in OpIds : StoreUpdateWriteSV(i)
    \/ \E i \in OpIds : StoreUpdatePut(i)
    \/ \E i \in OpIds : Reject(i)
    \/ ClearSteps
    \/ \E i \in OpIds : DropCollection(i)
    \/ MetaSteps

SpecMeta == Init /\ [][NextMeta]_vars
\* ------------------------------------------------------------- the documents listed
\* One collection and both docNames; the calls are storeUpdate of the small
\* update, clearDocument and getAllDocNames.
CallsNames ==
    /\ Len(ops) < MaxNames
    /\ \/ \E d \in DocNames : Transact(d, "storeUpdate", {1})
       \/ \E d \in DocNames : Transact(d, "clearDocument", {})
       \/ Transact("global", "getAllDocNames", {})

NextNames ==
    \/ CallsNames
    \/ \E i \in OpIds : Start(i)
    \/ \E i \in OpIds : StoreUpdateClock(i)
    \/ \E i \in OpIds : StoreUpdateWriteSV(i)
    \/ \E i \in OpIds : StoreUpdatePut(i)
    \/ \E i \in OpIds : Reject(i)
    \/ \E i \in OpIds : ClearDelSV(i)
    \/ \E i \in OpIds : ClearRange(i)
    \/ \E i \in OpIds : GetAllDocNames(i)

SpecNames == InitShared /\ [][NextNames]_vars

\* ------------------------------------------------------------- vocabulary of the properties
\* the update records of docName
RecordsOf(U, docName) == {r \in U : r.docName = docName}

\* the calls made for the docName of call i before call i
Earlier(i) == {j \in OpIds : j < i /\ ops[j].docName = ops[i].docName}

\* f(db) of call i has a storage call outstanding: it is between its first
\* await and its end, or one of the puts it issued is not answered yet
Outstanding(i) == Running(i) \/ \E p \in inflight : p.op = i

\* no f(db) for docName is between its first await and its end
Idle(docName) == \A i \in OpIds : ops[i].docName = docName => ~Running(i)

\* the records storeUpdate writes for update u at the given clock
WrittenBy(docName, clock, u) ==
    IF EncLen(u) <= MAX_DOCUMENT_SIZE
      THEN {UpdateRecord(docName, clock, 0, Encode(u))}
      ELSE {UpdateRecord(docName, clock, k + 1, chunkOf(u, k)) : k \in 0..(totalChunks(EncLen(u)) - 1)}

\* call i is a compaction that completes in this step
Compacted(i) == ops[i].pc = "fl_clear" /\ ops'[i].res = "ok"

\* the metadata records of docName
MetaOf(M, docName) == {r \in M : r.docName = docName}

\* call i returns in this step and has not thrown
Completes(i) == ops[i].pc # "done" /\ ops'[i].pc = "done" /\ ops'[i].res = "ok"

\* ------------------------------------------------------------- C1
\* C1: for every docName at most one call has a storage call outstanding at
\* any time, also after a chunk put rejected while its sibling puts were
\* still outstanding.
C1_MutualExclusion ==
    \A i, j \in OpIds :
        (i # j /\ ops[i].docName = ops[j].docName) => ~(Outstanding(i) /\ Outstanding(j))

\* ------------------------------------------------------------- C5
\* C5: whenever a compaction completes, the log read after it, if it can be
\* read, materialises the document that was materialised from the log before
\* the compaction.
C5_CompactionPreservesContent ==
    [][\A i \in OpIds : Compacted(i) =>
          LET r == readLog(upd', ops[i].docName)
          IN ~r.err => r.update = ops[i].update]_vars

\* ------------------------------------------------------------- C6
\* C6: when flushDocument(docName) completes on a document whose highest
\* update clock was n, the merged update at clock n+1 (one record or one
\* chunk set) is the only update record of docName and the state-vector
\* record carries clock n+1.
C6_FlushPostcondition ==
    [][\A i \in OpIds : (ops[i].f = "flushDocument" /\ Compacted(i)) =>
          LET d == ops[i].docName
              n == ops[i].clock
          IN /\ RecordsOf(upd', d) = WrittenBy(d, n + 1, ops[i].update)
             /\ svrec'[d] = SVRecord(n + 1, encodeStateVector(ops[i].update))]_vars

\* ------------------------------------------------------------- C7
\* C7: when flushDocument completes directly after a flushDocument of the
\* same docName that completed, the state vector stored is the one the first
\* call stored, the number of update records is the one the first call left,
\* and the update records are exactly the merged update at the last clock.
C7_FlushIdempotent ==
    [][\A i \in OpIds :
          (/\ ops[i].f = "flushDocument" /\ Compacted(i)
           /\ Earlier(i) # {}
           /\ ops[Max(Earlier(i))].f = "flushDocument"
           /\ ops[Max(Earlier(i))].res = "ok") =>
          LET d == ops[i].docName
              first == ops[Max(Earlier(i))]
          IN /\ svrec'[d].sv = encodeStateVector(first.update)
             /\ Cardinality(RecordsOf(upd', d)) = first.nrec
             /\ RecordsOf(upd', d) = WrittenBy(d, ops[i].clock + 1, ops[i].update)]_vars

\* ------------------------------------------------------------- C8
\* C8: whenever no operation on docName is executing, a docName that has
\* update records has a state-vector record.
C8_UpdatesImplyStateVector ==
    \A d \in DocNames : (Idle(d) /\ RecordsOf(upd, d) # {}) => svrec[d].present

\* ------------------------------------------------------------- C9
\* C9: in every state in which no operation on docName is executing and
\* getStateVector would return the stored state vector as it is (the record
\* exists and its clock is the current update clock) and the log can be read,
\* the stored state vector is the state vector of the merge of the update
\* records.
C9_FreshStateVector ==
    \A d \in DocNames :
        (Idle(d) /\ svrec[d].present /\ svrec[d].clock = getCurrentUpdateClock(upd, d)) =>
            LET r == readLog(upd, d)
            IN ~r.err => svrec[d].sv = encodeStateVector(r.update)

\* ------------------------------------------------------------- C3
\* C3: when a storeUpdate was issued while the storeUpdate before it on the
\* same docName was still pending and both returned a clock, the clock of
\* the second is the clock of the first plus one.
C3_ConsecutiveClocks ==
    \A i \in OpIds :
        (/\ ops[i].f = "storeUpdate" /\ ops[i].res = "ok"
         /\ ops[i].currTr # 0
         /\ ops[ops[i].currTr].f = "storeUpdate" /\ ops[ops[i].currTr].res = "ok") =>
            ops[i].ret = ops[ops[i].currTr].ret + 1

\* ------------------------------------------------------------- C4
\* C4: on a document for which only storeUpdate and getYDoc were called, the
\* document getYDoc returns holds every update a storeUpdate before it
\* returned a clock for, and nothing but the updates given to the
\* storeUpdate calls before it.
C4_GetYDocExact ==
    \A i \in OpIds :
        (/\ ops[i].f = "getYDoc" /\ ops[i].res = "ok"
         /\ \A j \in Earlier(i) : ops[j].f \in {"storeUpdate", "getYDoc"}) =>
            LET stores == {j \in Earlier(i) : ops[j].f = "storeUpdate"}
            IN /\ UNION {ops[j].update : j \in {k \in stores : ops[k].res = "ok"}} \subseteq ops[i].ydoc
               /\ ops[i].ydoc \subseteq UNION {ops[j].update : j \in stores}

\* ------------------------------------------------------------- C10
\* the storeUpdate calls that returned a clock directly before call i
StoresBefore(i) ==
    {j \in Earlier(i) : \A k \in Earlier(i) : k >= j => (ops[k].f = "storeUpdate" /\ ops[k].res = "ok")}

\* C10: when the last call made for a docName is a getStateVector that has
\* completed, and N storeUpdate calls (1 <= N <= flushSize) came directly
\* before it, the clock in the state-vector record is the current update
\* clock.
C10_ClockRepaired ==
    \A i \in OpIds :
        (/\ ops[i].f = "getStateVector" /\ ops[i].res = "ok"
         /\ \A j \in OpIds : ops[j].docName = ops[i].docName => j <= i
         /\ StoresBefore(i) # {} /\ Cardinality(StoresBefore(i)) <= flushSize) =>
            /\ svrec[ops[i].docName].present
            /\ svrec[ops[i].docName].clock = getCurrentUpdateClock(upd, ops[i].docName)

\* ------------------------------------------------------------- C2
\* C2: the calls made for one docName start in the order in which _transact
\* was called (a call has started only if every call made before it for the
\* docName has resolved), and each f(db) runs exactly once whether it returns
\* or throws: a call that waits either goes on waiting or starts its body, a
\* call that has started never waits or starts again, and a resolved call
\* never changes.
C2_SubmissionOrder ==
    /\ [](\A i, j \in OpIds :
             (i < j /\ ops[i].docName = ops[j].docName /\ ops[j].pc # "wait") => ops[i].pc = "done")
    /\ [][\A i \in OpIds :
             /\ ops[i].pc = "wait" => ops'[i].pc \in {"wait", FirstPc(ops[i].f)}
             /\ ops[i].pc # "wait" =>
                    (ops'[i] = ops[i] \/ ops'[i].pc \notin {"wait", FirstPc(ops[i].f)})
             /\ ops[i].pc = "done" => ops'[i] = ops[i]]_vars

\* three calls queued behind one another for one docName have all resolved,
\* the first one by throwing
C2_Witness ==
    \E i, j, k \in OpIds :
        /\ ops[j].currTr = i /\ ops[k].currTr = j
        /\ ops[i].res = "null" /\ ops[j].res = "ok" /\ ops[k].pc = "done"

\* ------------------------------------------------------------- C11
\* C11: when clearDocument(docName) completes, no update record, no
\* state-vector record and no metadata record of docName is left, with one
\* collection as well as with one collection per document (stated for the
\* runs in which no storage call has rejected).
C11_ClearRemovesAll ==
    [][\A i \in OpIds : (ops[i].f = "clearDocument" /\ Completes(i) /\ faults' = 0) =>
          LET d == ops[i].docName
          IN /\ RecordsOf(upd', d) = {}
             /\ ~svrec'[d].present
             /\ MetaOf(meta', d) = {}]_vars

\* ------------------------------------------------------------- C12
\* a storeUpdate on docName has returned a clock
StoredOnce(docName) ==
    \E i \in OpIds : ops[i].docName = docName /\ ops[i].f = "storeUpdate" /\ ops[i].res = "ok"

\* no clearDocument on docName has started
NeverCleared(docName) ==
    \A i \in OpIds : (ops[i].docName = docName /\ ops[i].f = "clearDocument") => ops[i].pc = "wait"

\* a clearDocument on docName has completed and no call made for docName
\* after it has started
Cleared(docName) ==
    \E i \in OpIds :
        /\ ops[i].docName = docName /\ ops[i].f = "clearDocument" /\ ops[i].res = "ok"
        /\ \A k \in OpIds : (k > i /\ ops[k].docName = docName) => ops[k].pc = "wait"

\* C12: with one collection, getAllDocNames returns exactly the docNames
\* that have a state-vector record when it reads: a docName is listed once a
\* storeUpdate on it has returned (while no clearDocument on it has started)
\* and is not listed once a clearDocument on it has completed (while no
\* later call on it has started).
C12_ListedIffStateVector ==
    [][\A j \in OpIds : (ops[j].f = "getAllDocNames" /\ Completes(j) /\ ~multipleCollections) =>
          /\ ops'[j].names = {d \in DocNames : svrec[d].present}
          /\ \A d \in DocNames :
                /\ (StoredOnce(d) /\ NeverCleared(d)) => d \in ops'[j].names
                /\ Cleared(d) => d \notin ops'[j].names]_vars

\* getAllDocNames was called after storeUpdate and clearDocument on doc1 and
\* has returned no docName
C12_Witness ==
    \E j \in OpIds :
        /\ ops[j].f = "getAllDocNames" /\ ops[j].res = "ok" /\ ops[j].names = {}
        /\ StoredOnce("doc1") /\ Cleared("doc1")
        /\ \A i \in OpIds : i <= j

\* ------------------------------------------------------------- C13
\* A database in which both documents are stored: each docName has the small
\* update at clock 0, the update of two chunks at clock 1, the state-vector
\* record the first storeUpdate wrote and one metadata record. The calls are
\* the operations of Facade on doc1 alone.
InitStored ==
    /\ multipleCollections \in BOOLEAN
    /\ upd = UNION {WrittenBy(d, 0, {1}) \cup WrittenBy(d, 1, {2}) : d \in DocNames}
    /\ svrec = [d \in DocNames |-> SVRecord(0, encodeStateVector({1}))]
    /\ meta = {MetaRecord(d, "k1", "a") : d \in DocNames}
    /\ collections = IF multipleCollections THEN DocNames ELSE {}
    /\ tr = [d \in QueueKeys |-> 0]
    /\ ops = <<>>
    /\ inflight = {}
    /\ faults = 0
    /\ closed = FALSE
    /\ persistence = Constructed

CallsIso ==
    /\ Len(ops) < MaxIso
    /\ \/ \E u \in Updates : Transact("doc1", "storeUpdate", u)
       \/ \E f \in Facade \ {"storeUpdate"} : Transact("doc1", f, {})

NextIso ==
    \/ CallsIso
    \/ StoreSteps
    \/ ReadSteps
    \/ ClearSteps
    \/ \E i \in OpIds : DropCollection(i)

SpecIso == InitStored /\ [][NextIso]_vars

\* C13: storeUpdate, flushDocument, getYDoc, getStateVector and
\* clearDocument on one docName never create, change or delete an update
\* record, the state-vector record or a metadata record of another docName,
\* with one collection or one collection per document: whenever a record of
\* a docName changes, the step is a step of a call made for that docName or
\* the answer to a put that call issued.
C13_Isolation ==
    [][\A d \in DocNames :
          (\/ RecordsOf(upd', d) # RecordsOf(upd, d)
           \/ svrec'[d] # svrec[d]
           \/ MetaOf(meta', d) # MetaOf(meta, d)) =>
              \/ \E i \in OpIds : ops[i].docName = d /\ ops'[i] # ops[i]
              \/ \E p \in inflight \ inflight' : p.docName = d]_vars

\* a compaction and then clearDocument on doc1 have completed, doc1 has no
\* record left and every record of doc2 is where it was
C13_Witness ==
    /\ \E j, k \in OpIds :
          /\ ops[j].f = "flushDocument" /\ ops[j].res = "ok"
          /\ ops[k].f = "clearDocument" /\ ops[k].res = "ok" /\ k > j
    /\ RecordsOf(upd, "doc1") = {} /\ ~svrec["doc1"].present
    /\ RecordsOf(upd, "doc2") = WrittenBy("doc2", 0, {1}) \cup WrittenBy("doc2", 1, {2})
    /\ svrec["doc2"].present /\ MetaOf(meta, "doc2") # {}

\* ------------------------------------------------------------- C14
\* the updates of more than MAX_DOCUMENT_SIZE bytes a caller stores
BigUpdates == {{2}, {1, 2}}

\* One collection and one docName; the calls are storeUpdate of an update of
\* two chunks and getYDoc.
CallsChunk ==
    /\ Len(ops) < MaxChunk
    /\ \/ \E u \in BigUpdates : Transact("doc1", "storeUpdate", u)
       \/ Transact("doc1", "getYDoc", {})

NextChunkSettled ==
    \/ CallsChunk
    \/ \E i \in OpIds : Start(i)
    \/ \E i \in OpIds : StoreUpdateClock(i)
    \/ \E i \in OpIds : StoreUpdateWriteSV(i)
    \/ \E p \in inflight : StoreUpdateChunk(p)
    \/ \E i \in OpIds : Reject(i)
    \/ \E i \in OpIds : ReadUpdates(i)
    \/ \E i \in OpIds : FlushWriteSV(i)
    \/ \E i \in OpIds : FlushClear(i)

NextChunk == NextChunkSettled \/ \E p \in inflight : RejectChunk(p)

SpecChunk == InitShared /\ [][NextChunk]_vars

\* the behaviours of SpecChunk in which no storage call outlives its operation
SpecChunkSettled == InitShared /\ [][NextChunkSettled]_vars

\* C14: when storeUpdate of an update of more than MAX_DOCUMENT_SIZE bytes
\* returns, getMongoUpdates reads the log without error and one of the
\* updates it puts together is, byte for byte, the update that was stored.
C14_ChunkRoundTrip ==
    [][\A i \in OpIds :
          (ops[i].f = "storeUpdate" /\ Completes(i) /\ EncLen(ops[i].update) > MAX_DOCUMENT_SIZE) =>
              LET r == getMongoUpdates(upd', ops[i].docName)
              IN /\ ~r.err
                 /\ \E k \in 1..Len(r.updates) : r.updates[k] = Encode(ops[i].update)]_vars

\* ------------------------------------------------------------- C15
\* The logs getMongoUpdates is given: any set of the records that
\* storeUpdate of the small update or of the update of two chunks writes at
\* the first MaxClocks clocks of doc1. The calls are getYDoc.
LogRecords ==
    UNION {WrittenBy("doc1", c, {1}) \cup WrittenBy("doc1", c, {2}) : c \in 0..(MaxClocks - 1)}

InitLog ==
    /\ multipleCollections = FALSE
    /\ upd \in SUBSET LogRecords
    /\ svrec = [d \in DocNames |-> IF d = "doc1" THEN SVRecord(0, 0) ELSE NoRecord]
    /\ meta = {}
    /\ collections = {}
    /\ tr = [d \in QueueKeys |-> 0]
    /\ ops = <<>>
    /\ inflight = {}
    /\ faults = 0
    /\ closed = FALSE
    /\ persistence = Constructed

NextLog ==
    \/ Len(ops) < MaxReads /\ Transact("doc1", "getYDoc", {})
    \/ \E i \in OpIds : Start(i)
    \/ \E i \in OpIds : ReadUpdates(i)
    \/ \E i \in OpIds : StoreUpdateClock(i)
    \/ \E i \in OpIds : StoreUpdatePut(i)
    \/ \E p \in inflight : StoreUpdateChunk(p)
    \/ \E i \in OpIds : FlushWriteSV(i)
    \/ \E i \in OpIds : FlushClear(i)

SpecLog == InitLog /\ [][NextLog]_vars

\* the records of docName at one clock that have a part
PartsAt(U, docName, clock) == {r \in RecordsOf(U, docName) : r.clock = clock /\ r.part > 0}

\* the part sequence of some clock is broken: the records with a part are
\* not the chunks of one update, part 1 to the last part
Broken(U, docName) ==
    \E c \in {r.clock : r \in RecordsOf(U, docName)} :
        /\ PartsAt(U, docName, c) # {}
        /\ \A u \in SUBSET Structs : PartsAt(U, docName, c) # WrittenBy(docName, c, u)

\* the bytes of value are among the bytes
Holds(bytes, value) ==
    \A v \in 1..Len(value) :
        \E k \in 1..Len(bytes) :
            bytes[k].u = value[v].u /\ bytes[k].from <= value[v].from /\ value[v].to <= bytes[k].to

\* C15: whenever getMongoUpdates reads a log in which the part sequence of
\* some clock is broken it fails with an error, and a result it returns
\* holds the payload of every update record of the log.
C15_BrokenLogFails ==
    [][\A i \in OpIds : (ops[i].pc = "read" /\ ops'[i].pc # "read") =>
          LET d == ops[i].docName
              r == getMongoUpdates(upd, d)
          IN /\ Broken(upd, d) => r.err
             /\ ~r.err => \A x \in RecordsOf(upd, d) :
                              \E k \in 1..Len(r.updates) : Holds(r.updates[k], x.value)]_vars

\* ------------------------------------------------------------- C16
\* call j is a storeUpdate of chunks that threw and left some of its chunks,
\* not all, in the records U
PartlyStored(U, j) ==
    LET w == WrittenBy(ops[j].docName, ops[j].clock + 1, ops[j].update)
        p == PartsAt(U, ops[j].docName, ops[j].clock + 1)
    IN /\ ops[j].f = "storeUpdate" /\ ops[j].res = "null"
       /\ EncLen(ops[j].update) > MAX_DOCUMENT_SIZE
       /\ p # {} /\ p \subseteq w /\ p # w

\* C16: when getYDoc reads the log of a document after a storeUpdate of
\* chunks on it has thrown and left some of its chunks but not all (every
\* put answered), getYDoc fails with an error.
C16_PartialStoreFailsRead ==
    [][\A i \in OpIds :
          (/\ ops[i].f = "getYDoc" /\ ops[i].pc = "read" /\ ops'[i].pc # "read"
           /\ inflight = {}
           /\ \E j \in Earlier(i) : PartlyStored(upd, j)) =>
              ops'[i].res = "null"]_vars

\* ------------------------------------------------------------- C17
\* a JavaScript value, by its type
Value(type, num, doc, str, set) == [type |-> type, num |-> num, doc |-> doc, str |-> str, set |-> set]

\* what f(db) returns when it does not throw
Returned(o) ==
    CASE o.f = "storeUpdate" -> Value("number", o.ret, {}, "", {})
      [] o.f = "getYDoc" -> Value("Y.Doc", -1, o.ydoc, "", {})
      [] o.f = "getStateVector" -> Value("Uint8Array", o.ret, {}, "", {})
      [] o.f = "getMeta" -> IF o.got.undefined THEN Value("undefined", -1, {}, "", {})
                            ELSE Value("string", -1, {}, o.got.value, {})
      [] o.f = "delMeta" -> Value("BulkWriteResult", -1, {}, "", {})
      [] o.f = "getAllDocNames" -> Value("string[]", -1, {}, "", o.names)
      [] OTHER -> Value("undefined", -1, {}, "", {})

\* the caller compares with == : null and undefined are the same
ResultLoose(i) ==
    IF ops[i].res = "null" \/ Returned(ops[i]).type = "undefined"
      THEN Value("null", -1, {}, "", {})
      ELSE Returned(ops[i])

\* the value the promise of call i is resolved with: null when f(db) threw
Result(i) ==
    IF ops[i].res = "null" THEN Value("null", -1, {}, "", {}) ELSE Returned(ops[i])

CallsLive ==
    /\ Len(ops) < MaxLive
    /\ \E d \in DocNames : Transact(d, "storeUpdate", {1})

\* the steps that are not calls
StepsLive ==
    \/ \E i \in OpIds : Start(i)
    \/ \E i \in OpIds : StoreUpdateClock(i)
    \/ \E i \in OpIds : StoreUpdateWriteSV(i)
    \/ \E i \in OpIds : StoreUpdatePut(i)
    \/ \E i \in OpIds : Reject(i)

NextLive == CallsLive \/ StepsLive

\* the scheduling of the event loop: every storage call is answered in the
\* end (with a result or an error) and every continuation that is ready runs
SpecLive == InitShared /\ [][NextLive]_vars /\ WF_vars(StepsLive)

\* C18: every call made is resolved in the end, whatever calls made before
\* it for the same docName or for another docName threw.
C18_QueueAdvances ==
    \A k \in 1..MaxLive : (Len(ops) >= k) ~> (Len(ops) >= k /\ ops[k].pc = "done")

\* a call queued behind a call that threw, and a call made for the other
\* docName, have returned
C18_Witness ==
    \E i, j, k \in OpIds :
        /\ ops[j].currTr = i /\ ops[i].res = "null" /\ ops[j].res = "ok"
        /\ ops[k].docName # ops[i].docName /\ ops[k].res = "ok"

\* ------------------------------------------------------------- C19
\* the next step of call i in SpecQueue: its start, or the answer to a
\* storage call it awaits
StepOf(i) ==
    \/ Start(i)
    \/ StoreUpdateClock(i)
    \/ StoreUpdateWriteSV(i)
    \/ \E p \in inflight : p.op = i /\ StoreUpdateChunk(p)

\* C19: a call never waits for a call of another docName: once every call
\* made before it for its own docName has resolved it can start, and once
\* started it can take each of its steps, whatever the calls made for other
\* docNames are doing.
C19_NoCrossBlocking ==
    \A i \in OpIds :
        (ops[i].pc # "done" /\ \A j \in Earlier(i) : ops[j].pc = "done") => ENABLED StepOf(i)

\* a call for one docName has returned while a call made before it for the
\* other docName is in flight and a third call waits behind that one
C19_Witness ==
    \E i, j, k \in OpIds :
        /\ i < k /\ ops[i].docName # ops[k].docName /\ ops[j].currTr = i
        /\ Running(i) /\ ops[j].pc = "wait" /\ ops[k].res = "ok"

\* ------------------------------------------------------------- C20
\* the calls made before call i for its docName that touch its metaKey
Touching(i) ==
    {j \in Earlier(i) : \/ ops[j].f \in {"setMeta", "delMeta"} /\ ops[j].metaKey = ops[i].metaKey
                        \/ ops[j].f = "clearDocument"}

\* C20: in a run in which no storage call rejects, when getMeta(docName,
\* metaKey) returns and the last call made before it that touches the key is
\* setMeta(docName, metaKey, v), getMeta returns v, for every value v.
C20_MetaRoundTrip ==
    \A i \in OpIds :
        (/\ ops[i].f = "getMeta" /\ ops[i].pc = "done" /\ faults = 0
         /\ Touching(i) # {}
         /\ ops[Max(Touching(i))].f = "setMeta") =>
            ops[i].got = [undefined |-> FALSE, value |-> ops[Max(Touching(i))].value]

\* ------------------------------------------------------------- C21
\* Either mode, one docName: the calls are the metadata operations on its
\* keys, with every value.
CallsKey ==
    /\ Len(ops) < MaxKey
    /\ \/ \E k \in MetaKeys, v \in MetaValues : TransactMeta("doc1", "setMeta", k, v)
       \/ \E k \in MetaKeys, f \in {"getMeta", "delMeta"} : TransactMeta("doc1", f, k, "")

NextKey ==
    \/ CallsKey
    \/ \E i \in OpIds : Start(i)
    \/ \E i \in OpIds : SetMetaPut(i)
    \/ \E i \in OpIds : GetMeta(i)
    \/ \E i \in OpIds : DelMeta(i)
    \/ \E i \in OpIds : Reject(i)

SpecKey == Init /\ [][NextKey]_vars

\* the calls of setMeta made before call i for its docName and metaKey
SetBefore(i) == {j \in Earlier(i) : ops[j].f = "setMeta" /\ ops[j].metaKey = ops[i].metaKey}

\* the key of call i was never set, or a delMeta made after every setMeta of
\* the key has returned
Absent(i) ==
    \/ SetBefore(i) = {}
    \/ \E j \in Earlier(i) : /\ ops[j].f = "delMeta" /\ ops[j].metaKey = ops[i].metaKey
                              /\ ops[j].res = "ok"
                              /\ \A s \in SetBefore(i) : s < j

\* C21: a getMeta whose db.get is answered returns a value and no error, and
\* the value is undefined when the key was never set for the docName or was
\* set and then removed by a delMeta that returned.
C21_AbsentIsUndefined ==
    [][\A i \in OpIds :
         (ops[i].pc = "gm_get" /\ ops'[i].pc = "done" /\ faults' = faults) =>
            /\ ops'[i].res = "ok"
            /\ Absent(i) => ops'[i].got.undefined]_vars

\* setMeta stored a value, delMeta removed it and getMeta returned undefined;
\* a getMeta of the other key, never set, returned undefined too
C21_Witness ==
    /\ Len(ops) = 3
    /\ ops[1].f = "setMeta" /\ ops[1].res = "ok" /\ ops[1].metaKey = "k1"
    /\ ops[2].f = "delMeta" /\ ops[2].res = "ok" /\ ops[2].metaKey = "k1"
    /\ ops[3].f = "getMeta" /\ ops[3].res = "ok" /\ ops[3].metaKey = "k1"
    /\ ops[3].got.undefined

\* ------------------------------------------------------------- C22
\* the operations of the facade on one docName, and those on the whole database
DocFacade == Facade \cup {"getDiff"}

GlobalFacade == {"getAllDocNames", "getAllDocStateVectors", "flushDB", "destroy"}

\* Either mode: every operation of the facade, those of a docName on doc1.
CallsShut ==
    /\ Len(ops) < MaxShut
    /\ \/ \E u \in Updates : Transact("doc1", "storeUpdate", u)
       \/ \E f \in DocFacade \ {"storeUpdate"} : Transact("doc1", f, {})
       \/ TransactMeta("doc1", "setMeta", "k1", "a")
       \/ \E f \in {"getMeta", "delMeta"} : TransactMeta("doc1", f, "k1", "")
       \/ \E f \in GlobalFacade : Transact("global", f, {})

\* the steps of the operations on the whole database and of a closed client
GlobalSteps ==
    \/ \E i \in OpIds : GetAllDocNames(i)
    \/ \E i \in OpIds : GetAllDocStateVectors(i)
    \/ \E i \in OpIds : DropDatabase(i)
    \/ \E i \in OpIds : Close(i)
    \/ \E i \in OpIds : RejectClosed(i)
    \/ \E i \in OpIds : Interrupted(i)
    \/ \E p \in inflight : InterruptedChunk(p)

NextShut ==
    \/ CallsShut
    \/ SettledSteps
    \/ ReadSteps
    \/ ClearSteps
    \/ \E i \in OpIds : DropCollection(i)
    \/ \E i \in OpIds : SetMetaPut(i)
    \/ \E i \in OpIds : GetMeta(i)
    \/ \E i \in OpIds : DelMeta(i)
    \/ GlobalSteps

SpecShut == Init /\ [][NextShut]_vars

CallsGlobal ==
    /\ Len(ops) < MaxGlobal
    /\ \/ \E d \in DocNames, f \in {"flushDocument", "clearDocument"} : Transact(d, f, {})
       \/ \E f \in GlobalFacade : Transact("global", f, {})

NextGlobal ==
    \/ CallsGlobal
    \/ StoreSteps
    \/ \E i \in OpIds : ReadUpdates(i)
    \/ \E i \in OpIds : FlushWriteSV(i)
    \/ \E i \in OpIds : FlushClear(i)
    \/ ClearSteps
    \/ \E i \in OpIds : DropCollection(i)
    \/ GlobalSteps

SpecGlobal == InitStored /\ [][NextGlobal]_vars

\* a storage call that call i issued is answered in this step
ActsIn(i) == ops'[i].pc # ops[i].pc \/ \E p \in inflight \ inflight' : p.op = i

\* the step writes or deletes records of docName
Changed(docName) ==
    \/ RecordsOf(upd', docName) # RecordsOf(upd, docName)
    \/ svrec'[docName] # svrec[docName]
    \/ MetaOf(meta', docName) # MetaOf(meta, docName)

\* the storage call that call i awaits reads records of docName: the scans
\* of getAllSVDocs, beside the calls an operation makes for its own docName
ReadsOf(i, docName) ==
    \/ ops[i].pc \in {"read", "su_clock", "gsv_read", "gsv_clock", "gm_get"} /\ ops[i].docName = docName
    \/ ops[i].pc \in {"names", "svs"} /\ ~multipleCollections /\ svrec[docName].present

\* C23 (as stated): every storage call that reads, writes or deletes records
\* of a docName is issued by a call queued under that docName.
C23_Exhaustive ==
    [][\A d \in DocNames, i \in OpIds :
         (ActsIn(i) /\ (Changed(d) \/ ReadsOf(i, d))) => ops[i].docName = d]_vars

\* C23 (amended): every storage call that reads, writes or deletes records
\* of a docName is issued by a call queued under that docName or by one of
\* the operations queued under 'global': flushDB deletes, getAllDocNames and
\* getAllDocStateVectors read, the records of every docName.
C23_DocOrGlobal ==
    [][\A d \in DocNames, i \in OpIds :
         (ActsIn(i) /\ (Changed(d) \/ ReadsOf(i, d))) =>
            \/ ops[i].docName = d
            \/ ops[i].docName = "global" /\ Changed(d) /\ ops[i].f = "flushDB"
            \/ ops[i].docName = "global" /\ ~Changed(d)
                  /\ ops[i].f \in {"getAllDocNames", "getAllDocStateVectors"}]_vars

\* flushDB has dropped the database, and with it the merged update that a
\* flushDocument of doc1 had written and whose state vector it is writing
C23_Witness ==
    \E i, j \in OpIds :
        /\ ops[i].f = "flushDB" /\ ops[i].pc = "fdb_close"
        /\ ops[j].f = "flushDocument" /\ ops[j].docName = "doc1" /\ ops[j].pc = "fl_sv"
        /\ upd = {}

\* ------------------------------------------------------------- C24
\* C24: when the only calls made are storeUpdate, none of them is running
\* and no storage call has rejected, a docName has at most flushSize + 1
\* update records: the flushSize transactions that are merged and the one
\* that triggers the merge.
C24_AutomaticMerge ==
    \A d \in DocNames :
        ((\A i \in OpIds : ops[i].f = "storeUpdate") /\ Idle(d) /\ faults = 0) =>
            Cardinality(RecordsOf(upd, d)) <= flushSize + 1

\* ------------------------------------------------------------- C25
\* One collection and one docName: storeUpdate of the update of two chunks,
\* flushDocument and clearDocument, with every storage failure.
CallsClock ==
    /\ Len(ops) < MaxStores
    /\ \/ Transact("doc1", "storeUpdate", {2})
       \/ \E f \in {"flushDocument", "clearDocument"} : Transact("doc1", f, {})

NextClock ==
    \/ CallsClock
    \/ StoreSteps
    \/ \E i \in OpIds : ReadUpdates(i)
    \/ \E i \in OpIds : FlushWriteSV(i)
    \/ \E i \in OpIds : FlushClear(i)
    \/ ClearSteps

SpecClock == InitShared /\ [][NextClock]_vars

\* call i is a storeUpdate of the facade that returned a clock
StoredAt(i) == ops[i].f = "storeUpdate" /\ ops[i].pc = "done" /\ ops[i].res = "ok"

\* a clearDocument was called for the docName between calls i and j
ClearedBetween(i, j) ==
    \E k \in OpIds : i < k /\ k < j /\ ops[k].docName = ops[i].docName /\ ops[k].f = "clearDocument"

C26_AllStateVectors ==
    [][\A i \in OpIds :
         (ops[i].pc = "svs" /\ ops'[i].pc = "done" /\ faults' = faults /\ ~closed) =>
            /\ ops'[i].res = "ok"
            /\ ops'[i].svs = { [name |-> d, sv |-> svrec[d].sv, clock |-> svrec[d].clock] :
                                 d \in {n \in DocNames : svrec[n].present} }]_vars

\* ------------------------------------------------------------- C27
\* the values passed for each option
CollectionNames == {undefined, null, Str(""), Str("c"), Num(1)}

MultipleCollections == {undefined, null, Bool(TRUE), Bool(FALSE), Str("true"), Num(0)}

FlushSizes == {undefined, null, Num(-1), Num(0), Num(1), NaN, Str("1")}

\* the constructor is called with any of these options, on an empty database
InitNew ==
    /\ persistence \in [opts : [collectionName : CollectionNames, multipleCollections : MultipleCollections,
                                 flushSize : FlushSizes],
                         pc : {"new"}, db : {FALSE}]
    /\ multipleCollections = FALSE
    /\ upd = {}
    /\ svrec = [d \in DocNames |-> NoRecord]
    /\ meta = {}
    /\ collections = {}
    /\ tr = [d \in QueueKeys |-> 0]
    /\ ops = <<>>
    /\ inflight = {}
    /\ faults = 0
    /\ closed = FALSE

\* an operation is called on the instance the constructor returned
CallsBuilt ==
    /\ persistence.pc = "done"
    /\ Len(ops) < MaxBuilt
    /\ Transact("doc1", "storeUpdate", {1})

NextNew ==
    \/ Construct
    \/ CallsBuilt
    \/ \E i \in OpIds : Start(i)
    \/ \E i \in OpIds : StoreUpdateClock(i)
    \/ \E i \in OpIds : StoreUpdateWriteSV(i)
    \/ \E i \in OpIds : StoreUpdatePut(i)

SpecNew == InitNew /\ [][NextNew]_vars

\* an option is given and is not what the claim asks for: collectionName a
\* non-empty string, multipleCollections a boolean, flushSize a number
\* greater than 0
InvalidOption(opts) ==
    \/ opts.collectionName # undefined
          /\ ~(opts.collectionName.type = "string" /\ opts.collectionName.str # "")
    \/ opts.multipleCollections # undefined /\ opts.multipleCollections.type # "boolean"
    \/ opts.flushSize # undefined
          /\ ~(opts.flushSize.type = "number" /\ opts.flushSize # NaN /\ opts.flushSize.num > 0)

\* C27: when the constructor is called with an invalid option it throws: no
\* MongoAdapter is created and no call is ever queued.
C27_FailFast ==
    (persistence.pc # "new" /\ InvalidOption(persistence.opts)) =>
        (persistence.pc = "thrown" /\ ~persistence.db /\ ops = <<>>)

\* ------------------------------------------------------------- C28
\* One collection and one docName: storeUpdate of either update, and getYDoc.
CallsYDoc ==
    /\ Len(ops) < MaxYDoc
    /\ \/ \E u \in Updates : Transact("doc1", "storeUpdate", u)
       \/ Transact("doc1", "getYDoc", {})

\* the steps of getYDoc and of the flushDocument it calls
YDocSteps ==
    \/ \E i \in OpIds : ReadUpdates(i)
    \/ \E i \in OpIds : FlushWriteSV(i)
    \/ \E i \in OpIds : FlushClear(i)

NextYDoc == CallsYDoc \/ StoreSteps \/ YDocSteps

SpecYDoc == InitShared /\ [][NextYDoc]_vars

\* the behaviours of SpecYDoc in which no storage call outlives its operation
NextYDocSettled == CallsYDoc \/ SettledSteps \/ YDocSteps

SpecYDocSettled == InitShared /\ [][NextYDocSettled]_vars

\* C28: when getYDoc has read its updates without an error, it goes on to
\* flushDocument exactly when it read more than flushSize updates; otherwise
\* it returns and the step changes no stored record; and when a getYDoc that
\* flushed returns, the update records of the docName are the merged update
\* alone.
C28_FlushOverThreshold ==
    [][\A i \in OpIds :
         LET d == ops[i].docName
             r == readLog(upd, d)
         IN /\ (ops[i].f = "getYDoc" /\ ops[i].pc = "read" /\ ops'[i].pc # "read" /\ ops'[i].res # "null") =>
                  /\ (r.n > flushSize) <=> (ops'[i].pc = "su_clock")
                  /\ ~(r.n > flushSize) => (Completes(i) /\ Stored' = Stored)
            /\ (ops[i].f = "getYDoc" /\ Compacted(i)) =>
                  RecordsOf(upd', d) = WrittenBy(d, ops[i].clock + 1, ops[i].update)]_vars

\* ------------------------------------------------------------- C29
\* docName is one of the names getAllDocNames would return
Listed(C, S, docName) == IF multipleCollections THEN docName \in C ELSE S[docName].present

\* docName has no update record and no state-vector record and is not listed
NonExistent(U, C, S, docName) ==
    RecordsOf(U, docName) = {} /\ ~S[docName].present /\ ~Listed(C, S, docName)

\* C29: in a run in which no storage call rejects, a step of a call other
\* than storeUpdate and setMeta leaves a docName that has no update record
\* and no state-vector record, and is not listed by getAllDocNames, without
\* such records and unlisted.
C29_OnlyStoreCreates ==
    [][\A d \in DocNames, i \in OpIds :
         (/\ ActsIn(i) /\ ops[i].f \notin {"storeUpdate", "setMeta"} /\ faults' = 0
          /\ NonExistent(upd, collections, svrec, d)) =>
            NonExistent(upd', collections', svrec', d)]_vars

\* ------------------------------------------------------------- C30
\* C30: of the calls queued under 'global' at most one is between its first
\* await and its end at any time; and such a call starts as soon as the
\* calls queued under 'global' before it have resolved, whatever the calls
\* queued for the docNames are doing.
C30_GlobalSerial ==
    \A i \in OpIds : ops[i].docName = "global" =>
        /\ \A j \in OpIds : (ops[j].docName = "global" /\ j # i) => ~(Running(i) /\ Running(j))
        /\ (ops[i].pc = "wait" /\ \A j \in Earlier(i) : ops[j].pc = "done") => ENABLED Start(i)

\* one collection: getAllDocNames has returned doc2 alone while the
\* clearDocument of doc1 is between its two deletes, with the update records
\* of doc1 still stored
C30_Witness ==
    \E i, j \in OpIds :
        /\ ops[i].f = "clearDocument" /\ ops[i].docName = "doc1" /\ ops[i].pc = "cd_clear"
        /\ ops[j].f = "getAllDocNames" /\ ops[j].pc = "done" /\ ops[j].names = {"doc2"}
        /\ RecordsOf(upd, "doc1") # {}

\* ------------------------------------------------------------- C31
\* every call made for docName and started has returned without throwing,
\* and no put issued for docName is unanswered
AllCompleted(docName) ==
    /\ \A i \in OpIds : ops[i].docName = docName => (ops[i].pc = "wait" \/ (ops[i].pc = "done" /\ ops[i].res = "ok"))
    /\ \A p \in inflight : p.docName # docName

\* the positions of the scan docs that hold a record of the clock
PositionsOf(docs, clock) == {j \in 1..Len(docs) : docs[j].clock = clock}

\* the records of each clock in the scan docs are one record without part,
\* or parts 1..N in one run, in part order
WellFormed(docs) ==
    \A k \in 1..Len(docs) :
        LET same == PositionsOf(docs, docs[k].clock)
            first == CHOOSE x \in same : \A y \in same : x <= y
        IN \/ same = {k} /\ docs[k].part = 0
           \/ /\ same = first..Max(same)
              /\ \A j \in same : docs[j].part = j - first + 1

Payloads == {{1}, {3}, {4}, {5}, {6}}

\* One collection and one docName: storeUpdate of a payload of any of the
\* lengths, with every storage failure.
CallsArith ==
    /\ Len(ops) < MaxArith
    /\ \E u \in Payloads : Transact("doc1", "storeUpdate", u)

NextArith == CallsArith \/ StoreSteps

SpecArith == InitShared /\ [][NextArith]_vars

\* storeUpdate of call i issues its puts in this step
Issues(i) == ops[i].pc \in {"su_clock", "su_sv"} /\ ops'[i].pc \in {"su_put", "su_chunks"}

\* the puts call i has issued and that are not answered
PutsOf(I, i) == {p \in I : p.op = i}

\* the slice [from, to) of the payload u that the put p carries
SliceOf(p) == p.value[1]

SameKey(r, q) == r.docName = q.docName /\ r.clock = q.clock /\ r.part = q.part

\* the step deletes update records: the clearUpdatesRange of a compaction or
\* of clearDocument, or its dropCollection
Deletes(i) == ops[i].pc \in {"fl_clear", "cd_clear", "cd_drop"} /\ ops'[i].pc # ops[i].pc

\* C33: no step changes the value of an update record; a record that a step
\* creates has a clock that no record of the docName uses, but for the
\* other chunks of the update it belongs to; and a step after which a
\* record is gone is the delete of a compaction or of clearDocument.
C33_Immutable ==
    [][/\ \A r \in upd, q \in upd' : SameKey(r, q) => q.value = r.value
       /\ \A q \in upd' \ upd : \A r \in upd :
             (r.docName = q.docName /\ r.clock = q.clock) =>
                 (r.part > 0 /\ q.part > 0 /\ r.part # q.part /\ r.value[1].u = q.value[1].u)
       /\ (\E r \in upd : ~\E q \in upd' : SameKey(r, q)) => \E i \in OpIds : Deletes(i)]_vars

\* ------------------------------------------------------------- C34
\* the operations that read the log of a document
Readers == {"getYDoc", "getStateVector", "flushDocument"}

\* On the logs of InitLog: the operations that read the log of doc1.
CallsCorrupt ==
    /\ Len(ops) < MaxCorrupt
    /\ \E f \in Readers : Transact("doc1", f, {})

NextCorrupt ==
    \/ CallsCorrupt
    \/ \E i \in OpIds : Start(i)
    \/ \E i \in OpIds : StoreUpdateClock(i)
    \/ \E i \in OpIds : StoreUpdateWriteSV(i)
    \/ \E i \in OpIds : StoreUpdatePut(i)
    \/ \E p \in inflight : StoreUpdateChunk(p)
    \/ ReadSteps

SpecCorrupt == InitLog /\ [][NextCorrupt]_vars

\* C34: when getYDoc, getStateVector or flushDocument has read the log of a
\* document in which the part sequence of some clock is broken, the call
\* ends there with an error (its promise is resolved with null) and the
\* records in storage are what they were.
C34_NoAutoRepair ==
    [][\A i \in OpIds :
         (/\ ops[i].f \in Readers /\ ops[i].pc = "read" /\ ops'[i].pc # "read"
          /\ Broken(upd, ops[i].docName)) =>
             (ops'[i].pc = "done" /\ ops'[i].res = "null" /\ Stored' = Stored)]_vars

\* ------------------------------------------------------------- C35
\* the calls made for the queue key
CallsFor(key) == {i \in OpIds : ops[i].docName = key}

\* C35: the entry of this.tr for a key, when there is one, is the last call
\* made for the key; it is there as long as a call made for the key has not
\* resolved and is gone when all have; and the step that removes it is the
\* step in which that last call resolves.
C35_TailBookkeeping ==
    /\ [](\A d \in QueueKeys :
             /\ tr[d] # 0 => (tr[d] \in CallsFor(d) /\ tr[d] = Max(CallsFor(d)))
             /\ (\E i \in CallsFor(d) : ops[i].pc # "done") => tr[d] = Max(CallsFor(d))
             /\ (\A i \in CallsFor(d) : ops[i].pc = "done") => tr[d] = 0)
    /\ [][\A d \in QueueKeys :
             (tr[d] # 0 /\ tr'[d] # tr[d]) =>
                 \/ tr'[d] = Len(ops) + 1 /\ Len(ops') = Len(ops) + 1 /\ ops'[tr'[d]].currTr = tr[d]
                 \/ /\ tr'[d] = 0 /\ ops[tr[d]].pc # "done" /\ ops'[tr[d]].pc = "done"
                    /\ \A i \in CallsFor(d) : ops'[i].pc = "done"]_vars

\* a call has thrown and left the entry of its docName to the call that
\* waits behind it, and the entry of the other docName is gone with the one
\* call made for it
C35_Witness ==
    \E i, j, k \in OpIds :
        /\ ops[j].currTr = i /\ ops[i].res = "null" /\ ops[j].pc = "wait" /\ tr[ops[j].docName] = j
        /\ ops[k].docName # ops[i].docName /\ ops[k].res = "ok" /\ tr[ops[k].docName] = 0

\* ------------------------------------------------------------- C36
\* Two instances of MongodbPersistence on one database with one collection
\* (two processes, or two `new MongodbPersistence` with one location): each
\* has a this.tr of its own.
InitTwo ==
    /\ multipleCollections = FALSE
    /\ upd = {}
    /\ svrec = [d \in DocNames |-> NoRecord]
    /\ meta = {}
    /\ collections = {}
    /\ tr = [d \in QueueKeys \cup {OtherKey(n) : n \in DocNames} |-> 0]
    /\ ops = <<>>
    /\ inflight = {}
    /\ faults = 0
    /\ closed = FALSE
    /\ persistence = Constructed

\* storeUpdate on doc1, called on either instance; no storage call fails
CallsTwo ==
    /\ Len(ops) < MaxTwo
    /\ \E u \in Updates : Transact("doc1", "storeUpdate", u) \/ TransactOther("doc1", "storeUpdate", u)

NextTwo ==
    \/ CallsTwo
    \/ \E i \in OpIds : Start(i)
    \/ \E i \in OpIds : StoreUpdateClock(i)
    \/ \E i \in OpIds : StoreUpdateWriteSV(i)
    \/ \E i \in OpIds : StoreUpdatePut(i)
    \/ \E p \in inflight : StoreUpdateChunk(p)

SpecTwo == InitTwo /\ [][NextTwo]_vars

\* C36: of the calls made for one docName, on either instance, at most one
\* is between its first await and its end at any time; two storeUpdate calls
\* that returned have returned different clocks; and the records that a
\* storeUpdate that returned has written are in storage as it wrote them
\* (no call deletes records here).
C36_NoOtherWriter ==
    /\ \A i, j \in OpIds : (i # j /\ ops[i].docName = ops[j].docName) => ~(Running(i) /\ Running(j))
    /\ \A i, j \in OpIds :
          (i # j /\ StoredAt(i) /\ StoredAt(j) /\ ops[i].docName = ops[j].docName) => ops[i].ret # ops[j].ret
    /\ \A i \in OpIds : StoredAt(i) => WrittenBy(ops[i].docName, ops[i].ret, ops[i].update) \subseteq upd

\* ------------------------------------------------------------- C37
\* the merge of the update records of docName in U is the struct set ydoc
Materialises(U, docName, ydoc) == ~readLog(U, docName).err /\ readLog(U, docName).update = ydoc

\* C37: from the moment the storeUpdate of a compaction has stored the
\* merged update, before and after each of the steps that follow (the write
\* of the state vector, the delete of the old clocks), whether the step
\* succeeds or fails, the merge of the update records of the docName is the
\* document that the compaction read.
C37_WriteBeforeDelete ==
    [][\A i \in OpIds : ops[i].pc \in {"fl_sv", "fl_clear"} =>
          /\ Materialises(upd, ops[i].docName, ops[i].update)
          /\ Materialises(upd', ops[i].docName, ops[i].update)]_vars

\* ------------------------------------------------------------- C38
\* The MongoDB documents behind the records, by the fields that the queries
\* name. An update record has version, action, docName, clock and, when it
\* is a chunk, part; a state-vector record has docName and version; a
\* metadata record has version, docName and metaKey.
UpdateDocument(r) ==
    IF r.part = 0
      THEN [version |-> "v1", action |-> "update", docName |-> r.docName, clock |-> r.clock]
      ELSE [version |-> "v1", action |-> "update", docName |-> r.docName, clock |-> r.clock, part |-> r.part]

StateVectorDocument(docName) == [docName |-> docName, version |-> "v1_sv"]

MetaDocument(r) == [version |-> "v1", docName |-> r.docName, metaKey |-> r.metaKey]

\* the documents of the update log and those of the metadata
LogDocuments ==
    {UpdateDocument(r) : r \in upd} \cup {StateVectorDocument(d) : d \in {n \in DocNames : svrec[n].present}}

MetaDocuments == {MetaDocument(r) : r \in meta}

\* a condition on clock: {$gte: from, $lt: to}; a clock given as a number is
\* the condition that holds for that number alone
Range(from, to) == [gte |-> from, lt |-> to]

\* createDocumentUpdateKey(docName): the key without clock
createDocumentUpdateKeyAll(docName) == [version |-> "v1", action |-> "update", docName |-> docName]

createDocumentUpdateKey(docName, clock) ==
    [version |-> "v1", action |-> "update", docName |-> docName, clock |-> Range(clock, clock + 1)]

createDocumentStateVectorKey(docName) == [docName |-> docName, version |-> "v1_sv"]

createDocumentMetaKey(docName, metaKey) == [version |-> "v1", docName |-> docName, metaKey |-> metaKey]

\* collection.find(query), updateOne(query), bulk.find(query): the document
\* has every field of the query, with the value of the query
Matches(doc, query) ==
    \A field \in DOMAIN query :
        /\ field \in DOMAIN doc
        /\ IF field = "clock" THEN query.clock.gte <= doc.clock /\ doc.clock < query.clock.lt
           ELSE doc[field] = query[field]

\* the clocks of the records and of the queries
Clocks == 0..(MaxIndep + 2)

\* the queries of storeUpdate, getYDoc, getStateVector and flushDocument:
\* getMongoUpdates, getCurrentUpdateClock, the puts of storeUpdate (whole and
\* chunk), clearUpdatesRange, and readStateVector / writeStateVector
LogQueries ==
    UNION { {createDocumentUpdateKeyAll(d),
             [createDocumentUpdateKey(d, 0) EXCEPT !.clock = Range(0, BITS32)],
             createDocumentStateVectorKey(d)}
            \cup {createDocumentUpdateKey(d, c) : c \in Clocks}
            \cup {[version |-> "v1", action |-> "update", docName |-> d, clock |-> Range(c, c + 1), part |-> k] :
                     c \in Clocks, k \in 1..2}
            \cup {[docName |-> d, clock |-> Range(0, c)] : c \in Clocks} : d \in DocNames }

\* the queries of setMeta, getMeta and delMeta
MetaQueries == {createDocumentMetaKey(d, k) : d \in DocNames, k \in MetaKeys}

LogFacade == {"storeUpdate", "getYDoc", "getStateVector", "flushDocument"}

MetaFacade == {"setMeta", "getMeta", "delMeta"}

\* A database in which doc1 is stored as in InitStored and doc2 has a
\* metadata record and nothing else (setMeta was called for it, storeUpdate
\* never).
InitIndep ==
    /\ multipleCollections \in BOOLEAN
    /\ upd = WrittenBy("doc1", 0, {1}) \cup WrittenBy("doc1", 1, {2})
    /\ svrec = [d \in DocNames |-> IF d = "doc1" THEN SVRecord(0, encodeStateVector({1})) ELSE NoRecord]
    /\ meta = {MetaRecord(d, "k1", "a") : d \in DocNames}
    /\ collections = IF multipleCollections THEN DocNames ELSE {}
    /\ tr = [d \in QueueKeys |-> 0]
    /\ ops = <<>>
    /\ inflight = {}
    /\ faults = 0
    /\ closed = FALSE
    /\ persistence = Constructed

\* Either mode: the operations of the log and of the metadata on doc1 and
\* the first storeUpdate for doc2, with every storage failure.
CallsIndep ==
    /\ Len(ops) < MaxIndep
    /\ \/ \E d \in DocNames : Transact(d, "storeUpdate", {1})
       \/ \E f \in {"getStateVector", "flushDocument"} : Transact("doc1", f, {})
       \/ TransactMeta("doc1", "setMeta", "k1", "b")
       \/ \E f \in {"getMeta", "delMeta"} : TransactMeta("doc1", f, "k1", "")

NextIndep ==
    \/ CallsIndep
    \/ StoreSteps
    \/ ReadSteps
    \/ \E i \in OpIds : SetMetaPut(i)
    \/ \E i \in OpIds : GetMeta(i)
    \/ \E i \in OpIds : DelMeta(i)

SpecIndep == InitIndep /\ [][NextIndep]_vars

\* C38: a step of setMeta, getMeta or delMeta leaves every update record
\* and every state-vector record as it is, and with them the value of
\* getCurrentUpdateClock for every docName; a step of storeUpdate, getYDoc,
\* getStateVector or flushDocument leaves every metadata record as it is;
\* and no query of the one group matches a document of the other.
C38_Independent ==
    /\ [][\A i \in OpIds : ActsIn(i) =>
             /\ ops[i].f \in MetaFacade =>
                   /\ upd' = upd /\ svrec' = svrec
                   /\ \A d \in DocNames : getCurrentUpdateClock(upd', d) = getCurrentUpdateClock(upd, d)
             /\ ops[i].f \in LogFacade => meta' = meta]_vars
    /\ [](/\ \A q \in MetaQueries, doc \in LogDocuments : ~Matches(doc, q)
          /\ \A q \in LogQueries, doc \in MetaDocuments : ~Matches(doc, q))

\* delMeta has removed the metadata record of doc1 and left its update
\* records, and a compaction has then merged them and left the metadata
\* record of doc2
C38_Witness ==
    /\ Len(ops) = 2
    /\ ops[1].f = "delMeta" /\ ops[1].docName = "doc1" /\ ops[1].res = "ok"
    /\ ops[2].f = "flushDocument" /\ ops[2].docName = "doc1" /\ ops[2].res = "ok"
    /\ MetaOf(meta, "doc1") = {} /\ MetaOf(meta, "doc2") # {}
    /\ RecordsOf(upd, "doc1") = WrittenBy("doc1", 2, {1, 2})

\* ------------------------------------------------------------- C39
\* Either mode and one docName: every facade operation of the log, the
\* updates of one record each, with every storage failure.
CallsVector ==
    /\ Len(ops) < MaxVector
    /\ \/ Transact("doc1", "storeUpdate", {1})
       \/ \E f \in Facade \ {"storeUpdate"} : Transact("doc1", f, {})

NextVector ==
    \/ CallsVector
    \/ \E i \in OpIds : Start(i)
    \/ \E i \in OpIds : StoreUpdateClock(i)
    \/ \E i \in OpIds : StoreUpdateWriteSV(i)
    \/ \E i \in OpIds : StoreUpdatePut(i)
    \/ \E i \in OpIds : Reject(i)
    \/ ReadSteps
    \/ ClearSteps
    \/ \E i \in OpIds : DropCollection(i)

SpecVector == Init /\ [][NextVector]_vars

\* the clock of the state-vector record of docName in S is that of the
\* newest update record in U
ClockCurrent(S, U, docName) ==
    S[docName].present /\ S[docName].clock = getCurrentUpdateClock(U, docName)

\* the clock of the state-vector record of docName in S is below that of the
\* newest update record in U
ClockBehind(S, U, docName) ==
    S[docName].present /\ S[docName].clock < getCurrentUpdateClock(U, docName)

\* call i returns from a compaction: the last step of utils.flushDocument
Compacts(i) == Completes(i) /\ ops[i].pc = "fl_clear"

\* C39: as long as no storage call has failed, (1) whenever every call made
\* for a docName has returned and the docName has a state-vector record, the
\* clock in the record is at most the clock of the newest update record;
\* (2) when a storeUpdate returns clock 0 (the first on an empty log) the two
\* are equal; (3) when a storeUpdate returns a later clock the record's clock
\* is strictly smaller; (4) when a compaction returns (flushDocument, the
\* flush of getYDoc, the repair of getStateVector) and whenever
\* getStateVector returns, the two are equal.
C39_VectorClock ==
    /\ [](\A d \in DocNames :
            (faults = 0 /\ AllCompleted(d) /\ svrec[d].present) =>
                svrec[d].clock <= getCurrentUpdateClock(upd, d))
    /\ [][\A i \in OpIds : (faults' = 0 /\ Completes(i)) =>
            LET d == ops[i].docName
            IN /\ (ops[i].f = "storeUpdate" /\ ops'[i].ret = 0) => ClockCurrent(svrec', upd', d)
               /\ (ops[i].f = "storeUpdate" /\ ops'[i].ret > 0) => ClockBehind(svrec', upd', d)
               /\ (Compacts(i) \/ ops[i].f = "getStateVector") => ClockCurrent(svrec', upd', d)]_vars

\* no storage call failed: the first storeUpdate returned clock 0, a second
\* one clock 1, and a getStateVector then found the record at clock 0,
\* compacted, and left the record and the log at clock 2
C39_Witness ==
    /\ faults = 0 /\ Len(ops) = 3
    /\ \A i \in 1..3 : ops[i].pc = "done" /\ ops[i].res = "ok"
    /\ ops[1].f = "storeUpdate" /\ ops[1].ret = 0
    /\ ops[2].f = "storeUpdate" /\ ops[2].ret = 1
    /\ ops[3].f = "getStateVector"
    /\ svrec["doc1"].present /\ svrec["doc1"].clock = 2
    /\ getCurrentUpdateClock(upd, "doc1") = 2

\* ------------------------------------------------------------- C40
\* Either mode: doc1 has been written and compacted until its log is one
\* record at the last clock or the last but one clock below BITS32, and its
\* state-vector record has that clock.
InitBound ==
    /\ multipleCollections \in BOOLEAN
    /\ \E c \in {BITS32 - 2, BITS32 - 1} :
          /\ upd = WrittenBy("doc1", c, {1})
          /\ svrec = [d \in DocNames |-> IF d = "doc1" THEN SVRecord(c, encodeStateVector({1})) ELSE NoRecord]
    /\ meta = {}
    /\ collections = IF multipleCollections THEN {"doc1"} ELSE {}
    /\ tr = [d \in QueueKeys |-> 0]
    /\ ops = <<>>
    /\ inflight = {}
    /\ faults = 0
    /\ closed = FALSE
    /\ persistence = Constructed

\* the facade operations of the log on that docName
SpecBound == InitBound /\ [][NextVector]_vars

\* the clock is one that getCurrentUpdateClock queries and that the
\* clearUpdatesRange of clearDocument deletes
InRange(clock) == clock >= 0 /\ clock < BITS32

\* C40: every update record, and every put of a chunk that storeUpdate has
\* issued, has a clock in [0, BITS32), also when the highest clock of the
\* docName is BITS32 - 1.
C40_ClockBound ==
    /\ \A r \in upd : InRange(r.clock)
    /\ \A p \in inflight : InRange(p.clock)

====
